---------------------------- MODULE Spec2Model ----------------------------
(***************************************************************************)
(* gorm-migrate: schema differencing, dependency-ordered SQL generation    *)
(* and migration application, modelled from the Go sources.                *)
(*                                                                         *)
(* Five specifications share the module's variables:                       *)
(*   SpecOrder  topoSortTables / generateUpSQL / generateDownSQL over      *)
(*              tables to create with arbitrary foreign keys               *)
(*   SpecGen    Generator.CreateMigration and GenerateCmd over diffs with  *)
(*              creates, drops, renames and modifications                  *)
(*   SpecTable  SchemaComparer.compareTable over pairs of tables           *)
(*   SpecDiff   SchemaComparer.compareSchemas over pairs of schemas        *)
(*   SpecApply  UpCmd / DownCmd / Migrator.Up / Migrator.Down over a       *)
(*              database, its version ledger and a migration registry      *)
(***************************************************************************)
EXTENDS Integers, Sequences, FiniteSets, TLC

VARIABLES
    \* ---- generator (internal/migration/generator/generator.go)
    SchemaDiff,     \* Generator.SchemaDiff, the diff handed to the generator
    pcGen,          \* position of the generator's caller
    genErr,         \* error returned by the last generator operation
    upSQL,          \* statements produced by generateUpSQL
    downSQL,        \* statements produced by generateDownSQL
    sorted,         \* result of topoSortTables (creation order)
    files,          \* migration files written into MigrationsDir
    dirExists,      \* whether MigrationsDir exists (os.MkdirAll)
    stdout,         \* last line printed by the generate command
    dbSchema        \* the database the files are run on: table -> column names

VARIABLES
    \* ---- schema comparer (migration/diff)
    currentSchema,  \* table name -> schema.Schema of the database
    modelSchemas,   \* table name -> schema.Schema of the models (the target)
    tableDiff,      \* result of the last CompareTable
    schemaChanges,  \* result of the last CompareSchemas
    pcDiff          \* position of the comparer's caller

varsGen == <<SchemaDiff, pcGen, genErr, upSQL, downSQL, sorted, files, dirExists,
             stdout, dbSchema>>
varsDiff == <<currentSchema, modelSchemas, tableDiff, schemaChanges, pcDiff>>

VARIABLES
    \* ---- migration application (internal/migration, migration/file)
    globalMigrations, \* registry: versions in the order they were registered
    migrationFiles,   \* versions that have a file in the migrations directory
    dbEffects,        \* statements whose effect the database holds: <<version, k>>
    records,          \* MigrationRecord rows, oldest applied_at first
    pcApply,          \* which command is running, "idle" between commands
    queue,            \* migrations the running command still has to apply
    stmtIdx,          \* statements of Head(queue) that Migrator.Up has run
    applyErr,         \* error returned by the last command ("" for nil)
    lastRun,          \* the last migration whose Up was started, and what
                      \* was pending beside it at that moment
    upRun,            \* the running or last command: the migrations it
                      \* committed, the one it failed on, the one it reverted
    loaded            \* the list LoadMigrations returned last

varsApply == <<globalMigrations, migrationFiles, dbEffects, records, pcApply,
               queue, stmtIdx, applyErr, lastRun, upRun, loaded>>

VARIABLES
    \* ---- a migration file as text (generator.go template, migration/file/loader.go)
    fileText,       \* the lines of the file CreateMigration wrote
    executed,       \* per function, the statements executeMigrationSQL ran
    pcFile          \* position of the caller that writes and then runs a file

varsFile == <<fileText, executed, pcFile>>

vars == <<varsGen, varsDiff, varsApply, varsFile>>

--------------------------------------------------------------------------
(* Sequence helpers *)

Range(s) == {s[i] : i \in 1..Len(s)}

Reverse(s) == [i \in 1..Len(s) |-> s[Len(s) + 1 - i]]

RECURSIVE Flatten(_)
Flatten(ss) == IF ss = <<>> THEN <<>> ELSE Head(ss) \o Flatten(Tail(ss))

IsInjective(s) == \A i, j \in 1..Len(s) : s[i] = s[j] => i = j

\* Sequences over S without repetition, of length at most n
RECURSIVE DistinctSeqs(_, _)
DistinctSeqs(S, n) ==
    IF n = 0 THEN {<<>>}
    ELSE LET shorter == DistinctSeqs(S, n - 1)
             longer  == {Append(s, x) : s \in shorter, x \in S}
         IN shorter \cup {s \in longer : IsInjective(s)}

--------------------------------------------------------------------------
(* Data model: gorm schema.Field / schema.Index / schema.Relationship as   *)
(* the generator and the comparer read them, and diff.TableDiff.           *)

\* schema.Field, the attributes the comparer and the generator read
Field(name, dataType, pk, notNull, default) ==
    [DBName |-> name, DataType |-> dataType, PrimaryKey |-> pk,
     AutoIncrement |-> FALSE, NotNull |-> notNull, Unique |-> FALSE,
     DefaultValue |-> default, IgnoreMigration |-> FALSE]

\* schema.Index: Name, Fields (their DBName), Option ("UNIQUE" or "")
Index(name, fields, option) == [Name |-> name, Fields |-> fields, Option |-> option]

\* schema.Relationship as a foreign key: Field (nil when HasField is FALSE)
\* and Schema.Table, the referenced table
Relationship(hasField, field, table) ==
    [HasField |-> hasField, Field |-> field, Table |-> table]

\* diff.TableDiff; Table is Schema.Table
TableDiff(table, add, drop, modify, idxAdd, idxDrop, idxModify, fkAdd) ==
    [Table |-> table, FieldsToAdd |-> add, FieldsToDrop |-> drop,
     FieldsToModify |-> modify, FieldsToRename |-> <<>>,
     IndexesToAdd |-> idxAdd, IndexesToDrop |-> idxDrop,
     IndexesToModify |-> idxModify,
     ForeignKeysToAdd |-> fkAdd, ForeignKeysToDrop |-> <<>>]

\* TableDiff.IsEmpty: IndexesToModify and FieldsToRename are not consulted
IsEmpty(d) ==
    /\ Len(d.FieldsToAdd) = 0
    /\ Len(d.FieldsToModify) = 0
    /\ Len(d.FieldsToDrop) = 0
    /\ Len(d.IndexesToAdd) = 0
    /\ Len(d.IndexesToDrop) = 0
    /\ Len(d.ForeignKeysToAdd) = 0
    /\ Len(d.ForeignKeysToDrop) = 0

\* Errors are values: kind is the message, table/column what it names
Error(kind, table, column) == [kind |-> kind, table |-> table, column |-> column]
NoError == Error("nil", "", "")

--------------------------------------------------------------------------
(* Dependency resolver: generator.topoSortTables *)

\* tableMap[t.Schema.Table] = t: a later table of the same name overwrites
HasTable(tables, name) == \E i \in 1..Len(tables) : tables[i].Table = name

tableMap(tables, name) ==
    tables[CHOOSE i \in 1..Len(tables) :
              /\ tables[i].Table = name
              /\ \A j \in 1..Len(tables) : tables[j].Table = name => j <= i]

\* The depth-first visit; st = [visited, visiting, sorted, err]
RECURSIVE visit(_, _, _)
RECURSIVE visitForeignKeys(_, _, _, _)

visitForeignKeys(t, k, st, tables) ==
    IF k > Len(t.ForeignKeysToAdd) \/ st.err # NoError THEN st
    ELSE LET fk == t.ForeignKeysToAdd[k]
         IN IF fk.Table # "" /\ fk.Table # t.Table
            THEN visitForeignKeys(t, k + 1, visit(fk.Table, st, tables), tables)
            ELSE visitForeignKeys(t, k + 1, st, tables)

\* A visit that takes a table already on the visiting path for a visited one
visit_IgnoreVisiting(name, st, tables) ==
    IF name \in st.visited \/ name \in st.visiting THEN st
    ELSE LET st1 == [st EXCEPT !.visiting = @ \cup {name}]
         IN IF ~HasTable(tables, name)
            THEN [st1 EXCEPT !.err = Error("table not found", name, "")]
            ELSE LET t   == tableMap(tables, name)
                     st2 == visitForeignKeys(t, 1, st1, tables)
                 IN IF st2.err # NoError THEN st2
                    ELSE [st2 EXCEPT !.visiting = @ \ {name},
                                     !.visited = @ \cup {name},
                                     !.sorted = Append(@, t)]

visit(name, st, tables) ==
    IF name \in st.visited THEN st
    ELSE IF name \in st.visiting
    THEN [st EXCEPT !.err = Error("circular dependency detected", name, "")]
    ELSE LET st1 == [st EXCEPT !.visiting = @ \cup {name}]
         IN IF ~HasTable(tables, name)
            THEN [st1 EXCEPT !.err = Error("table not found", name, "")]
            ELSE LET t   == tableMap(tables, name)
                     st2 == visitForeignKeys(t, 1, st1, tables)
                 IN IF st2.err # NoError THEN st2
                    ELSE [st2 EXCEPT !.visiting = @ \ {name},
                                     !.visited = @ \cup {name},
                                     !.sorted = Append(@, t)]

RECURSIVE visitAll(_, _, _)
visitAll(tables, i, st) ==
    IF i > Len(tables) \/ st.err # NoError THEN st
    ELSE visitAll(tables, i + 1, visit(tables[i].Table, st, tables))

\* A sort that checks the graph but hands the tables back in input order
topoSortTables_InputOrder(tables) ==
    LET st == visitAll(tables, 1,
                  [visited |-> {}, visiting |-> {}, sorted |-> <<>>, err |-> NoError])
    IN IF st.err # NoError THEN [sorted |-> <<>>, err |-> st.err]
       ELSE [sorted |-> tables, err |-> NoError]

\* topoSortTables returns (sorted, nil) or (nil, err)
topoSortTables(tables) ==
    LET st == visitAll(tables, 1,
                  [visited |-> {}, visiting |-> {}, sorted |-> <<>>, err |-> NoError])
    IN IF st.err # NoError THEN [sorted |-> <<>>, err |-> st.err]
       ELSE [sorted |-> st.sorted, err |-> NoError]

--------------------------------------------------------------------------
(* Migration SQL generator.  SQL text is kept as a sequence of statements, *)
(* each a record of the parts the generator formats into it.               *)

Stmt(op, table, name, columns, fks, uniques, on) ==
    [op |-> op, table |-> table, name |-> name, columns |-> columns,
     fks |-> fks, uniques |-> uniques, on |-> on]

mapGoTypeToSQLType(goType) ==
    CASE goType = "time"   -> "timestamp"
      [] goType = "string" -> "varchar(255)"
      [] goType = "int"    -> "integer"
      [] goType = "uint"   -> "bigint"
      [] goType = "float"  -> "double precision"
      [] goType = "bool"   -> "boolean"
      [] goType = "json"   -> "jsonb"
      [] OTHER             -> goType

mapGoTypeToSQLTypeWithAutoIncrement(goType, isPrimaryKey) ==
    IF isPrimaryKey /\ goType = "uint" THEN "BIGSERIAL"
    ELSE IF isPrimaryKey /\ goType = "int" THEN "SERIAL"
    ELSE mapGoTypeToSQLType(goType)

\* strings.Replace(idxName, "idx_idx_", "idx_", 1) over the index names in use
IdxName(name) ==
    IF name = "idx_idx_users_email" THEN "idx_users_email" ELSE name

\* One column line of CREATE TABLE: DEFAULT only for non-primary-key columns
CreateColumnDef(col) ==
    [name |-> col.DBName,
     sqlType |-> mapGoTypeToSQLTypeWithAutoIncrement(col.DataType, col.PrimaryKey),
     notNull |-> col.NotNull,
     primaryKey |-> col.PrimaryKey,
     default |-> IF ~col.PrimaryKey THEN col.DefaultValue ELSE ""]

\* The column definition of ALTER TABLE ... ADD/ALTER COLUMN
AlterColumnDef(col) ==
    [name |-> col.DBName,
     sqlType |-> mapGoTypeToSQLTypeWithAutoIncrement(col.DataType, col.PrimaryKey),
     notNull |-> col.NotNull,
     primaryKey |-> FALSE,
     default |-> col.DefaultValue]

Map(f(_), s) == [i \in 1..Len(s) |-> f(s[i])]

IsUniqueIndex(idx) == idx.Option = "UNIQUE"
IsPlainIndex(idx)  == idx.Option # "UNIQUE"
FKHasField(fk)     == fk.HasField
FKConstraint(fk)   == [column |-> fk.Field, ref |-> fk.Table]
UniqueConstraint(idx) == [name |-> IdxName(idx.Name), on |-> idx.Fields]

\* generateCreateTableSQL: the CREATE TABLE, then one CREATE INDEX per
\* non-unique index
generateCreateTableSQL(table) ==
    LET create == Stmt("CREATE TABLE", table.Table, "",
                       Map(CreateColumnDef, table.FieldsToAdd),
                       Map(FKConstraint, SelectSeq(table.ForeignKeysToAdd, FKHasField)),
                       Map(UniqueConstraint, SelectSeq(table.IndexesToAdd, IsUniqueIndex)),
                       <<>>)
        plain  == SelectSeq(table.IndexesToAdd, IsPlainIndex)
    IN <<create>> \o
       [i \in 1..Len(plain) |->
           Stmt("CREATE INDEX", table.Table, IdxName(plain[i].Name), <<>>, <<>>, <<>>,
                plain[i].Fields)]

\* generateModifyTableSQL: ADD COLUMN, DROP COLUMN, ALTER COLUMN,
\* ADD CONSTRAINT, CREATE [UNIQUE] INDEX, in that order
generateModifyTableSQL(table) ==
    LET fks == SelectSeq(table.ForeignKeysToAdd, FKHasField)
    IN [i \in 1..Len(table.FieldsToAdd) |->
           Stmt("ADD COLUMN", table.Table, table.FieldsToAdd[i].DBName,
                <<AlterColumnDef(table.FieldsToAdd[i])>>, <<>>, <<>>, <<>>)]
       \o
       [i \in 1..Len(table.FieldsToDrop) |->
           Stmt("DROP COLUMN", table.Table, table.FieldsToDrop[i].DBName,
                <<>>, <<>>, <<>>, <<>>)]
       \o
       [i \in 1..Len(table.FieldsToModify) |->
           Stmt("ALTER COLUMN", table.Table, table.FieldsToModify[i].DBName,
                <<AlterColumnDef(table.FieldsToModify[i])>>, <<>>, <<>>, <<>>)]
       \o
       [i \in 1..Len(fks) |->
           Stmt("ADD CONSTRAINT", table.Table, fks[i].Field, <<>>,
                <<FKConstraint(fks[i])>>, <<>>, <<>>)]
       \o
       [i \in 1..Len(table.IndexesToAdd) |->
           Stmt(IF IsUniqueIndex(table.IndexesToAdd[i])
                THEN "CREATE UNIQUE INDEX" ELSE "CREATE INDEX",
                table.Table, IdxName(table.IndexesToAdd[i].Name), <<>>, <<>>, <<>>,
                table.IndexesToAdd[i].Fields)]

\* generateUpSQL: creates in dependency order, then the modifications.
\* TablesToDrop and TablesToRename are not rendered.
generateUpSQL(diff) ==
    LET topo == topoSortTables(diff.TablesToCreate)
    IN IF topo.err # NoError THEN [sql |-> <<>>, err |-> topo.err]
       ELSE [sql |-> Flatten(Map(generateCreateTableSQL, topo.sorted))
                     \o Flatten(Map(generateModifyTableSQL, diff.TablesToModify)),
             err |-> NoError]

DropIndexStmts(table) ==
    [i \in 1..Len(table.IndexesToAdd) |->
        Stmt("DROP INDEX", "", IdxName(table.IndexesToAdd[i].Name),
             <<>>, <<>>, <<>>, <<>>)]

DropConstraintStmts(table) ==
    LET fks == SelectSeq(table.ForeignKeysToAdd, FKHasField)
    IN [i \in 1..Len(fks) |->
           Stmt("DROP CONSTRAINT", table.Table, fks[i].Field, <<>>, <<>>, <<>>, <<>>)]

DropTableStmt(table) == Stmt("DROP TABLE", table.Table, "", <<>>, <<>>, <<>>, <<>>)

\* A down SQL that drops the created tables in creation order
generateDownSQL_CreateOrder(diff) ==
    LET topo == topoSortTables(diff.TablesToCreate)
        order == IF topo.err # NoError THEN diff.TablesToCreate ELSE topo.sorted
    IN Flatten(Map(DropIndexStmts, diff.TablesToModify))
       \o Flatten(Map(DropConstraintStmts, diff.TablesToModify))
       \o Map(DropTableStmt, order)

\* generateDownSQL: drop the added indexes and constraints of the modified
\* tables, then the created tables in reverse topological order (reverse
\* input order when the sort fails)
generateDownSQL(diff) ==
    LET topo == topoSortTables(diff.TablesToCreate)
        order == IF topo.err # NoError THEN diff.TablesToCreate ELSE topo.sorted
    IN Flatten(Map(DropIndexStmts, diff.TablesToModify))
       \o Flatten(Map(DropConstraintStmts, diff.TablesToModify))
       \o Map(DropTableStmt, Reverse(order))

--------------------------------------------------------------------------
(* Inputs of the ordering specification: tables to create over TableNames, *)
(* each with foreign keys to tables of the run, to itself, to a table that *)
(* is not created in the run (GhostTable) or with an empty table name.     *)

MaxEdges == 3

TableNames == {"users", "orders", "items"}
GhostTable == "ghosts"
RefNames   == TableNames \cup {GhostTable, ""}

\* The foreign-key column that refers to a table
RefColumn(ref) ==
    CASE ref = "users"  -> "user_id"
      [] ref = "orders" -> "order_id"
      [] ref = "items"  -> "item_id"
      [] ref = "ghosts" -> "ghost_id"
      [] OTHER          -> "ref_id"

IdField == Field("id", "uint", TRUE, TRUE, "")

\* A table to create with foreign keys to refs, one int column per key
CreateTable(name, refs) ==
    TableDiff(name,
              <<IdField>> \o [i \in 1..Len(refs) |->
                                 Field(RefColumn(refs[i]), "int", FALSE, TRUE, "")],
              <<>>, <<>>, <<>>, <<>>, <<>>,
              [i \in 1..Len(refs) |-> Relationship(TRUE, RefColumn(refs[i]), refs[i])])

\* The database before generation: the tables a diff may modify, drop or rename
CurrentDB ==
    ("accounts" :> {"id", "age", "nickname"}) @@ ("legacy" :> {"id"})
      @@ ("profiles" :> {"id", "bio"})

EmptyDiff ==
    [TablesToCreate |-> <<>>, TablesToDrop |-> <<>>,
     TablesToModify |-> <<>>, TablesToRename |-> <<>>]

\* The diffs the ordering specification starts from: tables without keys
OrderDiffs ==
    {[EmptyDiff EXCEPT !.TablesToCreate =
          [i \in 1..Len(names) |-> CreateTable(names[i], <<>>)]] :
        names \in DistinctSeqs(TableNames, Cardinality(TableNames))}

RECURSIVE SumLen(_)
SumLen(ss) == IF ss = <<>> THEN 0 ELSE Len(Head(ss)) + SumLen(Tail(ss))

FKsOf(table) == table.ForeignKeysToAdd
RefOf(fk)    == fk.Table
NumForeignKeys(diff) == SumLen(Map(FKsOf, diff.TablesToCreate))

\* An empty Go map
EmptyMap == [k \in {} |-> k]

EmptyTableDiff == TableDiff("", <<>>, <<>>, <<>>, <<>>, <<>>, <<>>, <<>>)

\* The comparer not in use
InitDiffIdle ==
    /\ currentSchema = EmptyMap
    /\ modelSchemas = EmptyMap
    /\ tableDiff = EmptyTableDiff
    /\ schemaChanges = EmptyDiff
    /\ pcDiff = "idle"

\* No migration has run
NoRun == [version |-> 0, pending |-> {}]

\* A command that has applied and reverted nothing yet
NewRun == [committed |-> <<>>, failed |-> 0, reverted |-> 0, down |-> ""]

\* A Down command that returned err; record is the version whose Down it
\* ran, 0 when it ran none
DownRun(record, err) ==
    [NewRun EXCEPT !.reverted = IF err = "" THEN record ELSE 0,
                   !.down = IF err = "" THEN "ok" ELSE "failed"]

\* LoadMigrations has not been called
NotLoaded == <<0>>

\* The migration commands not in use
InitApplyIdle ==
    /\ globalMigrations = <<>>
    /\ migrationFiles = {}
    /\ dbEffects = {}
    /\ records = <<>>
    /\ pcApply = "idle"
    /\ queue = <<>>
    /\ stmtIdx = 0
    /\ applyErr = ""
    /\ lastRun = NoRun
    /\ upRun = NewRun
    /\ loaded = NotLoaded

\* executeMigrationSQL has not run the function
NotExecuted == [statements |-> <<>>, err |-> "not executed"]

\* No file has been written as text, none has been run
InitFileIdle ==
    /\ fileText = <<>>
    /\ executed = [function \in {"Up", "Down"} |-> NotExecuted]
    /\ pcFile = "idle"

\* What the generator's steps leave alone
varsNotGen == <<varsDiff, varsApply, varsFile>>

\* What the comparer's steps leave alone
varsNotDiff == <<varsGen, varsApply, varsFile>>

\* What the migration commands leave alone
varsNotApply == <<varsGen, varsDiff, varsFile>>

--------------------------------------------------------------------------
(* Ordering specification: generateUpSQL then generateDownSQL on one diff *)

InitGenIdle ==
    /\ SchemaDiff = EmptyDiff
    /\ pcGen = "idle"
    /\ genErr = NoError
    /\ upSQL = <<>>
    /\ downSQL = <<>>
    /\ sorted = <<>>
    /\ files = {}
    /\ dirExists = FALSE
    /\ stdout = ""
    /\ dbSchema = CurrentDB

InitOrder ==
    /\ SchemaDiff \in OrderDiffs
    /\ pcGen = "order"
    /\ genErr = NoError
    /\ upSQL = <<>>
    /\ downSQL = <<>>
    /\ sorted = <<>>
    /\ files = {}
    /\ dirExists = FALSE
    /\ stdout = ""
    /\ dbSchema = CurrentDB
    /\ InitDiffIdle
    /\ InitApplyIdle
    /\ InitFileIdle

\* The caller gives table i of the diff one more foreign key, with its column
AddForeignKey ==
    /\ pcGen = "order"
    /\ NumForeignKeys(SchemaDiff) < MaxEdges
    /\ \E i \in 1..Len(SchemaDiff.TablesToCreate), ref \in RefNames :
          LET t == SchemaDiff.TablesToCreate[i]
          IN /\ ref \notin Range(Map(RefOf, t.ForeignKeysToAdd))
             /\ SchemaDiff' = [SchemaDiff EXCEPT !.TablesToCreate[i] =
                    [t EXCEPT !.FieldsToAdd =
                                  Append(@, Field(RefColumn(ref), "int", FALSE, TRUE, "")),
                              !.ForeignKeysToAdd =
                                  Append(@, Relationship(TRUE, RefColumn(ref), ref))]]
    /\ UNCHANGED <<pcGen, genErr, upSQL, downSQL, sorted, files, dirExists, stdout, dbSchema>>
    /\ UNCHANGED varsNotGen

\* g.generateUpSQL()
GenerateUpSQL ==
    /\ pcGen = "order"
    /\ LET r == generateUpSQL(SchemaDiff)
       IN /\ upSQL' = r.sql
          /\ genErr' = r.err
          /\ sorted' = topoSortTables(SchemaDiff.TablesToCreate).sorted
    /\ pcGen' = "up"
    /\ UNCHANGED <<SchemaDiff, downSQL, files, dirExists, stdout, dbSchema>>
    /\ UNCHANGED varsNotGen

\* g.generateDownSQL()
GenerateDownSQL ==
    /\ pcGen = "up"
    /\ genErr = NoError
    /\ downSQL' = generateDownSQL(SchemaDiff)
    /\ pcGen' = "down"
    /\ UNCHANGED <<SchemaDiff, genErr, upSQL, sorted, files, dirExists, stdout, dbSchema>>
    /\ UNCHANGED varsNotGen

NextOrder == AddForeignKey \/ GenerateUpSQL \/ GenerateDownSQL

SpecOrder == InitOrder /\ [][NextOrder]_vars

--------------------------------------------------------------------------
(* The foreign-key graph of the tables to create, as the claims speak of it *)

CreateNames(diff) == {diff.TablesToCreate[i].Table : i \in 1..Len(diff.TablesToCreate)}

\* The tables a table references: self-references and empty names are none
RefsOf(t) == {fk.Table : fk \in Range(t.ForeignKeysToAdd)} \ {"", t.Table}

References(diff, a, b) ==
    \E i \in 1..Len(diff.TablesToCreate) :
        diff.TablesToCreate[i].Table = a /\ b \in RefsOf(diff.TablesToCreate[i])

\* b is reached from a along at most n references between created tables
RECURSIVE Reaches(_, _, _, _)
Reaches(diff, a, b, n) ==
    /\ n > 0
    /\ \/ References(diff, a, b)
       \/ \E c \in CreateNames(diff) :
              References(diff, a, c) /\ Reaches(diff, c, b, n - 1)

OnCycle(diff, a) ==
    a \in CreateNames(diff) /\ Reaches(diff, a, a, Len(diff.TablesToCreate))

HasCycle(diff) == \E a \in CreateNames(diff) : OnCycle(diff, a)

\* Every referenced table is created in the same run
Closed(diff) ==
    \A i \in 1..Len(diff.TablesToCreate) :
        RefsOf(diff.TablesToCreate[i]) \subseteq CreateNames(diff)

IsCreate(stmt) == stmt.op = "CREATE TABLE"
IsDropTable(stmt) == stmt.op = "DROP TABLE"
TableOf(x) == x.Table
StmtTable(stmt) == stmt.table

CreateOrder(sql) == Map(StmtTable, SelectSeq(sql, IsCreate))
DropOrder(sql)   == Map(StmtTable, SelectSeq(sql, IsDropTable))

\* Every table of names that references another one comes after it in order
ParentsFirst(diff, order) ==
    \A i, j \in 1..Len(order) :
        References(diff, order[i], order[j]) => j < i

ChildrenFirst(diff, order) ==
    \A i, j \in 1..Len(order) :
        References(diff, order[i], order[j]) => i < j

IsPermutationOfCreates(diff, order) ==
    /\ Len(order) = Len(diff.TablesToCreate)
    /\ Range(order) = CreateNames(diff)

--------------------------------------------------------------------------
(* C2: for any set of tables to create whose foreign-key graph is acyclic  *)
(* (every reference being to a table of the set), topoSortTables succeeds  *)
(* and the creation order, and the order of the CREATE TABLE statements of *)
(* the up SQL, hold all the tables, each after every table it references.  *)
C2_TopologicalOrder ==
    (pcGen \in {"up", "down"} /\ ~HasCycle(SchemaDiff) /\ Closed(SchemaDiff)) =>
        /\ genErr = NoError
        /\ IsPermutationOfCreates(SchemaDiff, Map(TableOf, sorted))
        /\ ParentsFirst(SchemaDiff, Map(TableOf, sorted))
        /\ CreateOrder(upSQL) = Map(TableOf, sorted)
        /\ ParentsFirst(SchemaDiff, CreateOrder(upSQL))

\* An acyclic diff whose input order lists a referencing table first
C2_Witness ==
    /\ pcGen = "up"
    /\ ~HasCycle(SchemaDiff) /\ Closed(SchemaDiff)
    /\ Len(sorted) = Cardinality(TableNames)
    /\ \E i, j \in 1..Len(SchemaDiff.TablesToCreate) :
          /\ i < j
          /\ References(SchemaDiff, SchemaDiff.TablesToCreate[i].Table,
                        SchemaDiff.TablesToCreate[j].Table)

(* C3 as stated: if the foreign keys among the tables to create contain a  *)
(* cycle of length 2 or more, ordering fails with an error naming a table  *)
(* on a cycle and returns no ordering.                                     *)
C3_CycleNamed ==
    (pcGen \in {"up", "down"} /\ HasCycle(SchemaDiff)) =>
        /\ genErr.kind = "circular dependency detected"
        /\ OnCycle(SchemaDiff, genErr.table)
        /\ sorted = <<>>
        /\ upSQL = <<>>

(* C3 amended: with a cycle of length 2 or more, ordering always fails and *)
(* returns no ordering and no up SQL; the error either names a table lying *)
(* on a cycle, or names a referenced table that is not created in the run  *)
(* (met by the visit before it closed the cycle); it names a table on a    *)
(* cycle whenever every reference is to a table of the run.                *)
C3_CycleRejected ==
    (pcGen \in {"up", "down"} /\ HasCycle(SchemaDiff)) =>
        /\ genErr # NoError
        /\ sorted = <<>>
        /\ upSQL = <<>>
        /\ \/ /\ genErr.kind = "circular dependency detected"
              /\ OnCycle(SchemaDiff, genErr.table)
           \/ /\ genErr.kind = "table not found"
              /\ genErr.table \notin CreateNames(SchemaDiff)
              /\ \E a \in CreateNames(SchemaDiff) :
                     References(SchemaDiff, a, genErr.table)
        /\ Closed(SchemaDiff) => genErr.kind = "circular dependency detected"

\* A cycle through all three tables, reported
C3_Witness ==
    /\ pcGen = "up"
    /\ \A a \in TableNames : OnCycle(SchemaDiff, a)
    /\ Closed(SchemaDiff)
    /\ genErr.kind = "circular dependency detected"

(* C8: whenever the up SQL is generated, the DROP TABLE statements of the  *)
(* down SQL name the created tables in the exact reverse of the order of   *)
(* the CREATE TABLE statements of the up SQL, so that every referencing    *)
(* table is dropped before the table it references.                        *)
C8_DropReversesCreate ==
    (pcGen = "down" /\ genErr = NoError) =>
        /\ DropOrder(downSQL) = Reverse(CreateOrder(upSQL))
        /\ IsPermutationOfCreates(SchemaDiff, DropOrder(downSQL))
        /\ ChildrenFirst(SchemaDiff, DropOrder(downSQL))

\* Three tables chained by references, created and dropped
C8_Witness ==
    /\ pcGen = "down"
    /\ genErr = NoError
    /\ Len(DropOrder(downSQL)) = Cardinality(TableNames)
    /\ \E a, b, c \in TableNames :
          /\ References(SchemaDiff, a, b)
          /\ References(SchemaDiff, b, c)
          /\ a # c

--------------------------------------------------------------------------
(* Generator.validateSchemaDiff: the first defect met, tables in order *)

\* regexp ^([a-zA-Z_]+)(\(.*\))?$ : letters, then an optional parenthesis
MatchesTypePattern(columnType) ==
    columnType \notin {"", "float64", "double precision"}

\* strings.ToLower(matches[1]): the type without its parameters
BaseType(columnType) ==
    CASE columnType = "varchar(255)"  -> "varchar"
      [] columnType = "decimal(10,2)" -> "decimal"
      [] columnType = "blob(16)"      -> "blob"
      [] OTHER                        -> columnType

validTypes ==
    {"int", "integer", "bigint", "uint", "string", "text", "varchar", "bool",
     "boolean", "float", "float64", "decimal", "time", "timestamp", "json",
     "jsonb", "uuid"}

\* A check of the type's form only
isValidColumnType_FormOnly(columnType) == MatchesTypePattern(columnType)

isValidColumnType(columnType) ==
    MatchesTypePattern(columnType) /\ BaseType(columnType) \in validTypes

\* The column loop; seen is columnNames[table] so far
RECURSIVE validateColumns(_, _, _)
validateColumns(table, k, seen) ==
    IF k > Len(table.FieldsToAdd) THEN [err |-> NoError, seen |-> seen]
    ELSE LET col == table.FieldsToAdd[k]
         IN IF col.DBName = ""
            THEN [err  |-> Error("column name cannot be empty", table.Table, ""),
                  seen |-> seen]
            ELSE IF col.DBName \in seen
            THEN [err  |-> Error("duplicate column name", table.Table, col.DBName),
                  seen |-> seen]
            ELSE IF ~isValidColumnType(col.DataType)
            THEN [err  |-> Error("unsupported column type", table.Table, col.DBName),
                  seen |-> seen \cup {col.DBName}]
            ELSE validateColumns(table, k + 1, seen \cup {col.DBName})

\* A validation that does not look at foreign keys
validateForeignKeys_NoCheck(table, k, seen) == NoError

RECURSIVE validateForeignKeys(_, _, _)
validateForeignKeys(table, k, seen) ==
    IF k > Len(table.ForeignKeysToAdd) THEN NoError
    ELSE LET fk == table.ForeignKeysToAdd[k]
         IN IF fk.HasField /\ fk.Field \notin seen
            THEN Error("foreign key column does not exist", table.Table, fk.Field)
            ELSE validateForeignKeys(table, k + 1, seen)

\* The first indexed column, in index then field order, that is not a column
MissingIndexColumns(table, seen) ==
    SelectSeq(Flatten(Map(LAMBDA idx : idx.Fields, table.IndexesToAdd)),
              LAMBDA c : c \notin seen)

validateIndexes(table, seen) ==
    LET missing == MissingIndexColumns(table, seen)
    IN IF missing = <<>> THEN NoError
       ELSE Error("index references non-existent column", table.Table, Head(missing))

validateTable(table) ==
    IF table.Table = "" THEN Error("table name cannot be empty", "", "")
    ELSE LET cols == validateColumns(table, 1, {})
         IN IF cols.err # NoError THEN cols.err
            ELSE LET fks == validateForeignKeys(table, 1, cols.seen)
                 IN IF fks # NoError THEN fks
                    ELSE validateIndexes(table, cols.seen)

\* Only the tables to create are validated
RECURSIVE validateTables(_, _)
validateTables(tables, i) ==
    IF i > Len(tables) THEN NoError
    ELSE LET err == validateTable(tables[i])
         IN IF err # NoError THEN err ELSE validateTables(tables, i + 1)

validateSchemaDiff(diff) == validateTables(diff.TablesToCreate, 1)

--------------------------------------------------------------------------
(* Generator.CreateMigration and the generate command *)

\* fmt.Errorf("prefix: %w", err)
Wrap(prefix, err) == [err EXCEPT !.kind = prefix \o ": " \o @]

\* commands.hasChanges
hasChanges(changes) ==
    \/ Len(changes.TablesToCreate) > 0
    \/ Len(changes.TablesToDrop) > 0
    \/ Len(changes.TablesToRename) > 0
    \/ \E i \in 1..Len(changes.TablesToModify) : ~IsEmpty(changes.TablesToModify[i])

\* The guard at the head of CreateMigration
HasChangesGuard(diff) ==
    \/ Len(diff.TablesToCreate) > 0 \/ Len(diff.TablesToDrop) > 0
    \/ Len(diff.TablesToRename) > 0
    \/ \E i \in 1..Len(diff.TablesToModify) : ~IsEmpty(diff.TablesToModify[i])

\* formatSQLAsExec: one db.Exec call per statement, none for empty SQL
formatSQLAsExec(sql) == [i \in 1..Len(sql) |-> [call |-> "db.Exec", sql |-> sql[i]]]

MigrationFile(name, up, down) ==
    [name |-> name, Up |-> formatSQLAsExec(up), Down |-> formatSQLAsExec(down)]

Outcome(err, mkdir, up, down, written) ==
    [err |-> err, mkdir |-> mkdir, up |-> up, down |-> down, written |-> written]

\* A CreateMigration that generates and writes before it validates
CreateMigration_ValidateLast(diff) ==
    IF ~HasChangesGuard(diff)
    THEN Outcome(Error("no schema changes detected", "", ""), FALSE, <<>>, <<>>, FALSE)
    ELSE LET up == generateUpSQL(diff)
             v  == validateSchemaDiff(diff)
         IN IF v # NoError
            THEN Outcome(Wrap("invalid schema diff", v), TRUE, up.sql,
                         generateDownSQL(diff), TRUE)
            ELSE Outcome(up.err, TRUE, up.sql, generateDownSQL(diff), TRUE)

\* A CreateMigration without the guard on empty diffs
CreateMigration_NoGuard(diff) ==
    LET v == validateSchemaDiff(diff)
    IN IF v # NoError
       THEN Outcome(Wrap("invalid schema diff", v), FALSE, <<>>, <<>>, FALSE)
       ELSE LET up == generateUpSQL(diff)
            IN IF up.err # NoError THEN Outcome(up.err, TRUE, <<>>, <<>>, FALSE)
               ELSE Outcome(NoError, TRUE, up.sql, generateDownSQL(diff), TRUE)

\* CreateMigration: guard, validate, MkdirAll, up SQL, down SQL, WriteFile
CreateMigrationOutcome(diff) ==
    IF ~HasChangesGuard(diff)
    THEN Outcome(Error("no schema changes detected", "", ""), FALSE, <<>>, <<>>, FALSE)
    ELSE LET v == validateSchemaDiff(diff)
         IN IF v # NoError
            THEN Outcome(Wrap("invalid schema diff", v), FALSE, <<>>, <<>>, FALSE)
            ELSE LET up == generateUpSQL(diff)
                 IN IF up.err # NoError
                    THEN Outcome(up.err, TRUE, <<>>, <<>>, FALSE)
                    ELSE Outcome(NoError, TRUE, up.sql, generateDownSQL(diff), TRUE)

MigrationName == "migration"

\* The state after CreateMigration returned r
Returned(r, err, out) ==
    /\ genErr' = err
    /\ stdout' = out
    /\ upSQL' = r.up
    /\ downSQL' = r.down
    /\ dirExists' = (dirExists \/ r.mkdir)
    /\ files' = IF r.written
                THEN files \cup {MigrationFile(MigrationName, r.up, r.down)}
                ELSE files
    /\ pcGen' = "done"
    /\ UNCHANGED <<SchemaDiff, sorted, dbSchema>>
    /\ UNCHANGED varsNotGen

\* gen.CreateMigration(name) called on the diff
CreateMigration ==
    /\ pcGen = "build"
    /\ LET r == CreateMigrationOutcome(SchemaDiff)
       IN Returned(r, r.err, "")

\* generate [name]: the command, from the computed changes on
GenerateCmd ==
    /\ pcGen = "build"
    /\ IF ~hasChanges(SchemaDiff)
       THEN Returned(Outcome(NoError, FALSE, <<>>, <<>>, FALSE), NoError,
                     "No schema changes detected")
       ELSE LET r == CreateMigrationOutcome(SchemaDiff)
            IN IF r.err # NoError
               THEN Returned(r, Wrap("failed to generate migration", r.err), "")
               ELSE Returned(r, NoError, "Generated migration")

--------------------------------------------------------------------------
(* Inputs of the generator specification: the diffs a caller can hand to   *)
(* SetSchemaDiff, well-formed or not, built table by table.                *)

NewTables == {"users", "orders"}

NameField == Field("name", "string", FALSE, TRUE, "")

\* A table to create with nothing wrong: id and name
SoundTable(name) == [CreateTable(name, <<>>) EXCEPT !.FieldsToAdd = Append(@, NameField)]

\* The shapes of a table to create: sound ones and one per validation defect
CreateVariants(name) ==
    LET base == CreateTable(name, <<>>)
    IN { SoundTable(name),
         [base EXCEPT !.FieldsToAdd = Append(@, NameField),
                      !.IndexesToAdd = <<Index("idx_idx_users_email", <<"name">>, "")>>],
         [base EXCEPT !.FieldsToAdd = Append(@, NameField),
                      !.IndexesToAdd = <<Index("uni_name", <<"name">>, "UNIQUE")>>],
         [base EXCEPT !.FieldsToAdd = <<IdField, NameField, NameField>>],
         [base EXCEPT !.FieldsToAdd = Append(@, Field("", "string", FALSE, FALSE, ""))],
         [base EXCEPT !.FieldsToAdd = Append(@, Field("data", "blob", FALSE, FALSE, ""))],
         [base EXCEPT !.FieldsToAdd = Append(@, Field("data", "blob(16)", FALSE, FALSE, ""))],
         [base EXCEPT !.FieldsToAdd = Append(@, Field("score", "float64", FALSE, FALSE, "0"))],
         [base EXCEPT !.FieldsToAdd = Append(@, Field("price", "decimal(10,2)", FALSE, FALSE, "0"))],
         [base EXCEPT !.ForeignKeysToAdd = <<Relationship(TRUE, "owner_id", name)>>],
         [base EXCEPT !.IndexesToAdd = <<Index("idx_missing", <<"missing">>, "")>>] }

ColumnRename(old, new) == [OldName |-> old, NewName |-> new]
TableRename(old, new)  == [OldName |-> old, NewName |-> new]

\* The changes to the existing table accounts(id, age, nickname)
ModifyVariants ==
    LET base  == TableDiff("accounts", <<>>, <<>>, <<>>, <<>>, <<>>, <<>>, <<>>)
        email == Field("email", "string", FALSE, TRUE, "")
        nick  == Field("nickname", "string", FALSE, FALSE, "")
        age   == Field("age", "int", FALSE, TRUE, "0")
        owner == Field("user_id", "int", FALSE, TRUE, "")
    IN { base,
         [base EXCEPT !.FieldsToRename = <<ColumnRename("nickname", "nick")>>],
         [base EXCEPT !.IndexesToModify = <<Index("idx_accounts_age", <<"age">>, "")>>],
         [base EXCEPT !.FieldsToAdd = <<email>>],
         [base EXCEPT !.FieldsToDrop = <<nick>>],
         [base EXCEPT !.FieldsToModify = <<age>>],
         [base EXCEPT !.FieldsToAdd = <<email>>, !.FieldsToDrop = <<nick>>,
                      !.FieldsToModify = <<age>>],
         [base EXCEPT !.IndexesToAdd = <<Index("idx_accounts_age", <<"age">>, "")>>],
         [base EXCEPT !.IndexesToDrop = <<Index("idx_accounts_nick", <<"nickname">>, "")>>],
         [base EXCEPT !.FieldsToAdd = <<owner>>,
                      !.ForeignKeysToAdd = <<Relationship(TRUE, "user_id", "users")>>] }

InitGen ==
    /\ SchemaDiff = EmptyDiff
    /\ pcGen = "build"
    /\ genErr = NoError
    /\ upSQL = <<>>
    /\ downSQL = <<>>
    /\ sorted = <<>>
    /\ files = {}
    /\ dirExists = FALSE
    /\ stdout = ""
    /\ dbSchema = CurrentDB
    /\ InitDiffIdle
    /\ InitApplyIdle
    /\ InitFileIdle

\* One more table to create; names are not repeated, the empty name included
AddCreate ==
    /\ pcGen = "build"
    /\ \E name \in NewTables \cup {""} :
          /\ ~HasTable(SchemaDiff.TablesToCreate, name)
          /\ Len(SchemaDiff.TablesToCreate) < Cardinality(NewTables)
          /\ \E t \in CreateVariants(name) :
                SchemaDiff' = [SchemaDiff EXCEPT !.TablesToCreate = Append(@, t)]
    /\ UNCHANGED <<pcGen, genErr, upSQL, downSQL, sorted, files, dirExists, stdout, dbSchema>>
    /\ UNCHANGED varsNotGen

\* A foreign key, with its column, from a sound table to create to another
\* table, to itself or to a table that is not created
AddReference ==
    /\ pcGen = "build"
    /\ \E i \in 1..Len(SchemaDiff.TablesToCreate), ref \in NewTables \cup {GhostTable} :
          LET t == SchemaDiff.TablesToCreate[i]
          IN /\ t = SoundTable(t.Table)
             /\ SchemaDiff' = [SchemaDiff EXCEPT !.TablesToCreate[i] =
                    [t EXCEPT !.FieldsToAdd =
                                  Append(@, Field(RefColumn(ref), "int", FALSE, TRUE, "")),
                              !.ForeignKeysToAdd =
                                  <<Relationship(TRUE, RefColumn(ref), ref)>>]]
    /\ UNCHANGED <<pcGen, genErr, upSQL, downSQL, sorted, files, dirExists, stdout, dbSchema>>
    /\ UNCHANGED varsNotGen

\* The change of the existing table
AddModify ==
    /\ pcGen = "build"
    /\ SchemaDiff.TablesToModify = <<>>
    /\ \E t \in ModifyVariants :
          SchemaDiff' = [SchemaDiff EXCEPT !.TablesToModify = <<t>>]
    /\ UNCHANGED <<pcGen, genErr, upSQL, downSQL, sorted, files, dirExists, stdout, dbSchema>>
    /\ UNCHANGED varsNotGen

AddDrop ==
    /\ pcGen = "build"
    /\ SchemaDiff.TablesToDrop = <<>>
    /\ SchemaDiff' = [SchemaDiff EXCEPT !.TablesToDrop = <<"legacy">>]
    /\ UNCHANGED <<pcGen, genErr, upSQL, downSQL, sorted, files, dirExists, stdout, dbSchema>>
    /\ UNCHANGED varsNotGen

AddRename ==
    /\ pcGen = "build"
    /\ SchemaDiff.TablesToRename = <<>>
    /\ SchemaDiff' = [SchemaDiff EXCEPT
                         !.TablesToRename = <<TableRename("profiles", "user_profiles")>>]
    /\ UNCHANGED <<pcGen, genErr, upSQL, downSQL, sorted, files, dirExists, stdout, dbSchema>>
    /\ UNCHANGED varsNotGen

--------------------------------------------------------------------------
(* Running a written file: each db.Exec in turn on the database, followed  *)
(* as the set of tables and the set of column names of each table.         *)

ColumnNamesOf(stmt) == {stmt.columns[i].name : i \in 1..Len(stmt.columns)}

\* The effect of one statement; a statement on a missing table has none
Exec(db, stmt) ==
    CASE stmt.op = "CREATE TABLE" /\ stmt.table \notin DOMAIN db ->
             db @@ (stmt.table :> ColumnNamesOf(stmt))
      [] stmt.op = "DROP TABLE" ->
             [t \in DOMAIN db \ {stmt.table} |-> db[t]]
      [] stmt.op = "ADD COLUMN" /\ stmt.table \in DOMAIN db ->
             [db EXCEPT ![stmt.table] = @ \cup {stmt.name}]
      [] stmt.op = "DROP COLUMN" /\ stmt.table \in DOMAIN db ->
             [db EXCEPT ![stmt.table] = @ \ {stmt.name}]
      [] OTHER -> db

RECURSIVE executeMigrationSQL(_, _)
executeMigrationSQL(db, execs) ==
    IF execs = <<>> THEN db
    ELSE executeMigrationSQL(Exec(db, Head(execs).sql), Tail(execs))

\* migration.Up(db) of the written file
ApplyUp ==
    /\ pcGen = "done"
    /\ \E f \in files :
          dbSchema' = executeMigrationSQL(dbSchema, f.Up)
    /\ pcGen' = "applied"
    /\ UNCHANGED <<SchemaDiff, genErr, upSQL, downSQL, sorted, files, dirExists, stdout>>
    /\ UNCHANGED varsNotGen

\* migration.Down(db) of the written file
ApplyDown ==
    /\ pcGen = "applied"
    /\ \E f \in files :
          dbSchema' = executeMigrationSQL(dbSchema, f.Down)
    /\ pcGen' = "reverted"
    /\ UNCHANGED <<SchemaDiff, genErr, upSQL, downSQL, sorted, files, dirExists, stdout>>
    /\ UNCHANGED varsNotGen

NextGen ==
    \/ AddCreate \/ AddReference \/ AddModify \/ AddDrop \/ AddRename
    \/ CreateMigration \/ GenerateCmd
    \/ ApplyUp \/ ApplyDown

SpecGen == InitGen /\ [][NextGen]_vars

--------------------------------------------------------------------------
(* What the claims on generation call an empty and an invalid diff *)

NoTableChange(t) ==
    /\ t.FieldsToAdd = <<>> /\ t.FieldsToDrop = <<>> /\ t.FieldsToModify = <<>>
    /\ t.FieldsToRename = <<>>
    /\ t.IndexesToAdd = <<>> /\ t.IndexesToDrop = <<>> /\ t.IndexesToModify = <<>>
    /\ t.ForeignKeysToAdd = <<>> /\ t.ForeignKeysToDrop = <<>>

ZeroNetChange(diff) ==
    /\ diff.TablesToCreate = <<>> /\ diff.TablesToDrop = <<>>
    /\ diff.TablesToRename = <<>>
    /\ \A i \in 1..Len(diff.TablesToModify) : NoTableChange(diff.TablesToModify[i])

ColumnsOf(t) == {t.FieldsToAdd[i].DBName : i \in 1..Len(t.FieldsToAdd)}

\* A table to create that validation has a reason to refuse
DefectiveTable(t) ==
    \/ t.Table = ""
    \/ \E i \in 1..Len(t.FieldsToAdd) :
          \/ t.FieldsToAdd[i].DBName = ""
          \/ ~isValidColumnType(t.FieldsToAdd[i].DataType)
          \/ \E j \in 1..Len(t.FieldsToAdd) :
                i # j /\ t.FieldsToAdd[i].DBName = t.FieldsToAdd[j].DBName
    \/ \E fk \in Range(t.ForeignKeysToAdd) : fk.HasField /\ fk.Field \notin ColumnsOf(t)
    \/ \E idx \in Range(t.IndexesToAdd) : ~(Range(idx.Fields) \subseteq ColumnsOf(t))

FailsValidation(diff) ==
    \E i \in 1..Len(diff.TablesToCreate) : DefectiveTable(diff.TablesToCreate[i])

FailsOrdering(diff) == HasCycle(diff) \/ ~Closed(diff)

(* C5 as stated: running a migration's up SQL and then its down SQL leaves  *)
(* the database with the tables it had before and every table with the     *)
(* columns it had before.                                                  *)
C5_UpThenDownRestores ==
    pcGen = "reverted" => dbSchema = CurrentDB

(* C9: a diff with zero net change is refused at generation: CreateMigration*)
(* returns "no schema changes detected", the generate command prints that  *)
(* message, and in both cases no SQL is produced and no file is written.   *)
C9_EmptyDiffRejected ==
    (pcGen = "done" /\ ZeroNetChange(SchemaDiff)) =>
        /\ files = {}
        /\ ~dirExists
        /\ upSQL = <<>> /\ downSQL = <<>>
        /\ \/ stdout = "" /\ genErr = Error("no schema changes detected", "", "")
           \/ stdout = "No schema changes detected" /\ genErr = NoError

\* CreateMigration has returned on a diff holding one table without changes
C9_Witness ==
    /\ pcGen = "done"
    /\ ZeroNetChange(SchemaDiff)
    /\ Len(SchemaDiff.TablesToModify) = 1
    /\ genErr.kind = "no schema changes detected"

(* C10: a diff that fails validation or dependency ordering makes          *)
(* generation return an error with no up or down SQL produced and no file  *)
(* written; a validation failure is met before the directory is created.   *)
C10_InvalidDiffRejected ==
    (pcGen = "done" /\ (FailsValidation(SchemaDiff) \/ FailsOrdering(SchemaDiff))) =>
        /\ genErr # NoError
        /\ upSQL = <<>> /\ downSQL = <<>>
        /\ files = {}
        /\ FailsValidation(SchemaDiff) => ~dirExists

\* A diff that passes validation and fails ordering on a two-table cycle,
\* with other changes that would otherwise be generated
C10_Witness ==
    /\ pcGen = "done"
    /\ ~FailsValidation(SchemaDiff)
    /\ HasCycle(SchemaDiff)
    /\ SchemaDiff.TablesToModify # <<>> /\ ~IsEmpty(SchemaDiff.TablesToModify[1])
    /\ genErr.kind = "circular dependency detected"
    /\ dirExists

--------------------------------------------------------------------------
(* Schema comparer (migration/diff): normalisation of types, defaults and  *)
(* names, fieldsEqual, compareTable and compareSchemas.                    *)

\* schema.Schema as the comparer reads it; Indexes is what ParseIndexes
\* returns, Relationships is Relationships.BelongsTo
Schema(table, fields, indexes) ==
    [Table |-> table, Fields |-> fields, Indexes |-> indexes, Relationships |-> <<>>]

\* strings.ToLower over the strings met: names and type spellings
ToLower(str) ==
    CASE str = "Users"   -> "users"
      [] str = "Email"   -> "email"
      [] str = "BIGINT"  -> "bigint"
      [] str = "VARCHAR" -> "varchar"
      [] str = "Boolean" -> "boolean"
      [] str = "NULL"    -> "null"
      [] str = "NOW()"   -> "now()"
      [] str = "TRUE"    -> "true"
      [] str = "Active"  -> "active"
      [] str = "DEFAULT NULL"      -> "default null"
      [] str = "CURRENT_TIMESTAMP" -> "current_timestamp"
      [] OTHER           -> str

normalizeTableName(name) == ToLower(name)

\* strings.HasPrefix(dtStr, "decimal(")
HasDecimalPrefix(dtStr) == dtStr \in {"decimal(10,2)", "decimal(5)"}

normalizeDBType(dt) ==
    LET dtStr == ToLower(dt)
    IN IF dtStr \in {"int", "int32", "int4", "int64", "int8", "uint", "bigint"}
       THEN "bigint"
       ELSE IF \/ dtStr \in {"float64", "float32", "float", "real", "numeric",
                             "decimal", "float8", "double precision"}
               \/ HasDecimalPrefix(dtStr)
       THEN "decimal"
       ELSE IF dtStr \in {"string", "varchar", "text", "character varying"}
       THEN "varchar"
       ELSE IF dtStr \in {"bool", "boolean"}
       THEN "boolean"
       ELSE IF dtStr \in {"time", "timestamp", "timestamp without time zone",
                          "timestamp with time zone"}
       THEN "timestamp"
       ELSE IF dtStr \in {"json", "jsonb"}
       THEN "jsonb"
       ELSE dtStr

\* strings.Trim(dv, "'\"") over the defaults met
TrimQuotes(dv) ==
    CASE dv = "'active'" -> "active"
      [] dv = "'0'"      -> "0"
      [] dv = "'NULL'"   -> "NULL"
      [] OTHER           -> dv

\* strings.HasPrefix(dv, "nextval")
HasNextvalPrefix(dv) ==
    dv \in {"nextval('users_id_seq'::regclass)", "nextval('orders_id_seq'::regclass)",
            "nextval"}

\* A normalizeDefaultValue that folds no equivalent defaults
normalizeDefaultValue_LiteralOnly(dv) == ToLower(TrimQuotes(dv))

normalizeDefaultValue(dv) ==
    IF dv = "" THEN ""
    ELSE LET v == ToLower(TrimQuotes(dv))
         IN IF HasNextvalPrefix(v) THEN "auto_increment"
            ELSE IF v \in {"null", "default null"} THEN ""
            ELSE IF v \in {"true", "false"} THEN v
            ELSE IF v \in {"0", "0.0"} THEN "0"
            ELSE IF v \in {"now()", "current_timestamp", "current_timestamp()"}
            THEN "current_timestamp"
            ELSE v

\* strings.EqualFold
EqualFold(a, b) == ToLower(a) = ToLower(b)

\* A fieldsEqual that normalises the type of the target side only
fieldsEqual_TargetSideOnly(a, b) ==
    /\ EqualFold(a.DBName, b.DBName)
    /\ ToLower(a.DataType) = normalizeDBType(b.DataType)
    /\ a.PrimaryKey = b.PrimaryKey
    /\ a.Unique = b.Unique
    /\ normalizeDefaultValue(a.DefaultValue) = normalizeDefaultValue(b.DefaultValue)
    /\ a.AutoIncrement = b.AutoIncrement
    /\ (~a.PrimaryKey => a.NotNull = b.NotNull)

fieldsEqual(a, b) ==
    /\ EqualFold(a.DBName, b.DBName)
    /\ normalizeDBType(a.DataType) = normalizeDBType(b.DataType)
    /\ a.PrimaryKey = b.PrimaryKey
    /\ a.Unique = b.Unique
    /\ normalizeDefaultValue(a.DefaultValue) = normalizeDefaultValue(b.DefaultValue)
    /\ a.AutoIncrement = b.AutoIncrement
    /\ (~a.PrimaryKey => a.NotNull = b.NotNull)

indexesEqual(a, b) ==
    /\ a.Name = b.Name
    /\ a.Option = b.Option
    /\ Len(a.Fields) = Len(b.Fields)
    /\ \A i \in 1..Len(a.Fields) : a.Fields[i] = b.Fields[i]

\* The copy compareTable works on: the attributes that are carried over
normalizeFieldMetadata(field) ==
    [DBName |-> field.DBName, DataType |-> field.DataType,
     PrimaryKey |-> field.PrimaryKey, AutoIncrement |-> field.AutoIncrement,
     NotNull |-> field.NotNull, Unique |-> field.Unique,
     DefaultValue |-> field.DefaultValue,
     IgnoreMigration |-> field.IgnoreMigration]

\* normalizeFieldName leaves these lower-case names as they are
gormDefaultFields == {"id", "created_at", "updated_at", "deleted_at"}

\* map[string]*schema.Field keyed by DBName, a later field of the same name
\* replacing an earlier one, with the default fields marked IgnoreMigration
FieldsByName(fields) ==
    [n \in {fields[i].DBName : i \in 1..Len(fields)} |->
        LET last == CHOOSE i \in 1..Len(fields) :
                        /\ fields[i].DBName = n
                        /\ \A j \in 1..Len(fields) : fields[j].DBName = n => j <= i
            f    == normalizeFieldMetadata(fields[last])
        IN IF n \in gormDefaultFields THEN [f EXCEPT !.IgnoreMigration = TRUE] ELSE f]

IndexesByName(indexes) ==
    [n \in {indexes[i].Name : i \in 1..Len(indexes)} |->
        indexes[CHOOSE i \in 1..Len(indexes) :
                    /\ indexes[i].Name = n
                    /\ \A j \in 1..Len(indexes) : indexes[j].Name = n => j <= i]]

\* The keys of a map in the order one range over it yields them: order is a
\* sequence holding every key once, chosen anew by each range statement
InOrder(order, keys) == SelectSeq(order, LAMBDA k : k \in keys)

\* The foreign keys the earlier compareTable proposed to drop: those of a
\* current table with columns that the target does not have
ForeignKeyDrops_Earlier(current, target) ==
    LET key(rel) == <<rel.Table, rel.Field>>
        targetRelationships == {key(r) : r \in {x \in Range(target.Relationships) : x.HasField}}
    IN IF Len(current.Fields) > 0
       THEN SelectSeq(current.Relationships,
                      LAMBDA r : r.HasField /\ key(r) \notin targetRelationships)
       ELSE <<>>

\* "Foreign key diffs are still ignored for now": the list stays as made
ForeignKeyDrops(current, target) == <<>>

\* An index comparison made for every table
IndexesCompared_Always(current) == TRUE

\* if len(current.Fields) == 0: index diffs only for new tables
IndexesCompared(current) == Len(current.Fields) = 0

\* compareTable; fieldOrder and indexOrder are the iteration orders of its maps
compareTable(current, target, fieldOrder, indexOrder) ==
    LET currentFields == FieldsByName(current.Fields)
        targetFields  == FieldsByName(target.Fields)
        considered == {n \in DOMAIN targetFields :
                          ~targetFields[n].IgnoreMigration /\ n # ""}
        toAdd    == {n \in considered : n \notin DOMAIN currentFields}
        toModify == {n \in considered :
                        /\ n \in DOMAIN currentFields
                        /\ ~fieldsEqual(currentFields[n], targetFields[n])}
        toDrop   == {n \in DOMAIN currentFields :
                        /\ ~currentFields[n].IgnoreMigration
                        /\ n \notin DOMAIN targetFields}
        isNew          == IndexesCompared(current)
        currentIndexes == IndexesByName(current.Indexes)
        targetIndexes  == IndexesByName(target.Indexes)
        idxAdd    == {n \in DOMAIN targetIndexes : n \notin DOMAIN currentIndexes}
        idxModify == {n \in DOMAIN targetIndexes :
                         /\ n \in DOMAIN currentIndexes
                         /\ ~indexesEqual(currentIndexes[n], targetIndexes[n])}
        idxDrop   == {n \in DOMAIN currentIndexes : n \notin DOMAIN targetIndexes}
        fieldsOf(names, m) ==
            LET o == InOrder(fieldOrder, names) IN [i \in 1..Len(o) |-> m[o[i]]]
        indexesOf(names, m) ==
            IF ~isNew THEN <<>>
            ELSE LET o == InOrder(indexOrder, names) IN [i \in 1..Len(o) |-> m[o[i]]]
    IN [TableDiff(target.Table,
                  fieldsOf(toAdd, targetFields),
                  fieldsOf(toDrop, currentFields),
                  fieldsOf(toModify, targetFields),
                  indexesOf(idxAdd, targetIndexes),
                  indexesOf(idxDrop, currentIndexes),
                  indexesOf(idxModify, targetIndexes),
                  <<>>)
        EXCEPT !.ForeignKeysToDrop = ForeignKeyDrops(current, target)]

--------------------------------------------------------------------------
(* Table comparison specification: CompareTable on two versions of the     *)
(* table users, the database's and the models', built column by column.    *)

\* The spellings normalizeDBType folds, family by family, and some it keeps
IntegerFamily == {"int", "int32", "int4", "int64", "int8", "uint", "bigint", "BIGINT"}
FloatFamily ==
    {"float64", "float32", "float", "real", "numeric", "decimal", "decimal(10,2)",
     "float8", "double precision"}
StringFamily == {"string", "varchar", "text", "character varying", "VARCHAR"}
BoolFamily == {"bool", "boolean", "Boolean"}
TimeFamily ==
    {"time", "timestamp", "timestamp without time zone", "timestamp with time zone"}
JSONFamily == {"json", "jsonb"}

TypeFamilies ==
    {IntegerFamily, FloatFamily, StringFamily, BoolFamily, TimeFamily, JSONFamily}

OtherTypes == {"uuid", "bytea"}

TypeSpellings == UNION TypeFamilies \cup OtherTypes

SameFamily(a, b) == \E family \in TypeFamilies : a \in family /\ b \in family

\* The columns a version of users is made of, in declaration order: id, age,
\* then email
IdColumns ==
    {[Field("id", "uint", TRUE, TRUE, "") EXCEPT !.AutoIncrement = TRUE],
     Field("id", "string", TRUE, TRUE, "")}

AgeColumns ==
    {Field("age", t, FALSE, FALSE, "") : t \in TypeSpellings}
      \cup {Field("age", t, FALSE, nn, dv) :
               t \in {"int", "int4"}, nn \in BOOLEAN, dv \in {"", "0"}}

EmailColumns ==
    {Field("email", "string", FALSE, TRUE, ""), Field("Email", "string", FALSE, TRUE, "")}

ColumnSlots == <<IdColumns, AgeColumns, EmailColumns>>

\* The keys of the field maps and of the index maps of two schemas
FieldKeys(a, b) == {f.DBName : f \in Range(a.Fields) \cup Range(b.Fields)}
IndexKeys(a, b) == {x.Name : x \in Range(a.Indexes) \cup Range(b.Indexes)}

\* The orders a range over a map of these keys can take
Orders(keys) == {o \in [1..Cardinality(keys) -> keys] : IsInjective(o)}

\* The slot a schema's next column is declared in
NextSlots(schema) ==
    {k \in 1..Len(ColumnSlots) :
        \A i \in 1..Len(schema.Fields) :
            \E j \in 1..(k - 1) : schema.Fields[i] \in ColumnSlots[j]}

InitTable ==
    /\ currentSchema = ("users" :> Schema("users", <<>>, <<>>))
    /\ modelSchemas = ("users" :> Schema("users", <<>>, <<>>))
    /\ tableDiff = EmptyTableDiff
    /\ schemaChanges = EmptyDiff
    /\ pcDiff = "columns"
    /\ InitGenIdle
    /\ InitApplyIdle
    /\ InitFileIdle

\* The database's users table has one more column
AddCurrentField ==
    /\ pcDiff = "columns"
    /\ \E k \in NextSlots(currentSchema["users"]) : \E f \in ColumnSlots[k] :
          currentSchema' = [currentSchema EXCEPT !["users"].Fields = Append(@, f)]
    /\ UNCHANGED <<modelSchemas, tableDiff, schemaChanges, pcDiff>>
    /\ UNCHANGED varsNotDiff

\* The model of users declares one more column
AddTargetField ==
    /\ pcDiff = "columns"
    /\ \E k \in NextSlots(modelSchemas["users"]) : \E f \in ColumnSlots[k] :
          modelSchemas' = [modelSchemas EXCEPT !["users"].Fields = Append(@, f)]
    /\ UNCHANGED <<currentSchema, tableDiff, schemaChanges, pcDiff>>
    /\ UNCHANGED varsNotDiff

\* comparer.CompareTable(current, target)
CompareTable ==
    /\ pcDiff = "columns"
    /\ LET cur == currentSchema["users"]
           tgt == modelSchemas["users"]
       IN \E fieldOrder \in Orders(FieldKeys(cur, tgt)),
             indexOrder \in Orders(IndexKeys(cur, tgt)) :
             tableDiff' = compareTable(cur, tgt, fieldOrder, indexOrder)
    /\ pcDiff' = "compared"
    /\ UNCHANGED <<currentSchema, modelSchemas, schemaChanges>>
    /\ UNCHANGED varsNotDiff

NextTable == AddCurrentField \/ AddTargetField \/ CompareTable

SpecTable == InitTable /\ [][NextTable]_vars

\* The names of the columns a table diff proposes to change
ChangedColumns(d) ==
    {f.DBName : f \in Range(d.FieldsToAdd) \cup Range(d.FieldsToModify)
                       \cup Range(d.FieldsToDrop)}

\* Two columns that differ at most in the spelling of their type
SameButType(a, b) == [a EXCEPT !.DataType = ""] = [b EXCEPT !.DataType = ""]

(* C6: when the database's and the models' version of a table hold a       *)
(* column of the same name that agrees on every attribute but the type,    *)
(* and the two types are spellings of one family (integer, float/decimal,  *)
(* string, boolean, time, json), whichever side carries which spelling,    *)
(* CompareTable proposes no change for that column.                        *)
C6_SpellingsEqual ==
    pcDiff = "compared" =>
        \A c \in Range(currentSchema["users"].Fields), t \in Range(modelSchemas["users"].Fields) :
            (SameButType(c, t) /\ SameFamily(c.DataType, t.DataType))
                => c.DBName \notin ChangedColumns(tableDiff)

\* The database spells age int4 and the model spells it int, and the
\* comparison, which had another column to report, left age alone
C6_Witness ==
    /\ pcDiff = "compared"
    /\ \E c \in Range(currentSchema["users"].Fields), t \in Range(modelSchemas["users"].Fields) :
          /\ c.DBName = "age" /\ t.DBName = "age"
          /\ c.DataType = "int4" /\ t.DataType = "int"
          /\ SameButType(c, t)
    /\ ChangedColumns(tableDiff) # {}
    /\ "age" \notin ChangedColumns(tableDiff)

--------------------------------------------------------------------------
(* SchemaComparer.compareSchemas.  Each range over a Go map takes an order  *)
(* of its own, gathered in the record order: which of two names that       *)
(* normalise alike is written last into a normalised map (lastCurrent,     *)
(* lastTarget), which is met first when the original name of a dropped     *)
(* table is looked up (firstCurrent), the order of the tables (tables)     *)
(* and, per table, of its columns (fields) and indexes (indexes).          *)

NormalizedNames(schemas) == {normalizeTableName(k) : k \in DOMAIN schemas}

\* The ways to settle on one original name per normalised name
Originals(schemas) ==
    {f \in [NormalizedNames(schemas) -> DOMAIN schemas] :
        \A n \in NormalizedNames(schemas) : normalizeTableName(f[n]) = n}

\* A diff that names the tables to drop by their normalised names
SchemaDiffOf_NormalizedDrops(normalizedCurrent, normalizedTarget, creates, order) ==
    LET firstCurrent == order.firstCurrent
        tableOrder   == order.tables
        fieldOrders  == order.fields
        indexOrder   == order.indexes
        both == DOMAIN normalizedTarget \ creates
        tableDiffOf(n) ==
            IF n \in creates
            THEN compareTable(Schema(normalizedTarget[n].Table, <<>>, <<>>),
                              normalizedTarget[n], fieldOrders[n], indexOrder)
            ELSE compareTable(normalizedCurrent[n], normalizedTarget[n],
                              fieldOrders[n], indexOrder)
        modifies == {n \in both : ~IsEmpty(tableDiffOf(n))}
        drops    == DOMAIN normalizedCurrent \ DOMAIN normalizedTarget
        oc == InOrder(tableOrder, creates)
        om == InOrder(tableOrder, modifies)
        od == InOrder(tableOrder, drops)
    IN [TablesToCreate |-> [i \in 1..Len(oc) |-> tableDiffOf(oc[i])],
        TablesToDrop   |-> [i \in 1..Len(od) |-> od[i]],
        TablesToModify |-> [i \in 1..Len(om) |-> tableDiffOf(om[i])],
        TablesToRename |-> <<>>]

\* The pieces of compareSchemas that do not depend on how a table is looked up
SchemaDiffOf(normalizedCurrent, normalizedTarget, creates, order) ==
    LET firstCurrent == order.firstCurrent
        tableOrder   == order.tables
        fieldOrders  == order.fields
        indexOrder   == order.indexes
        both == DOMAIN normalizedTarget \ creates
        tableDiffOf(n) ==
            IF n \in creates
            THEN compareTable(Schema(normalizedTarget[n].Table, <<>>, <<>>),
                              normalizedTarget[n], fieldOrders[n], indexOrder)
            ELSE compareTable(normalizedCurrent[n], normalizedTarget[n],
                              fieldOrders[n], indexOrder)
        modifies == {n \in both : ~IsEmpty(tableDiffOf(n))}
        drops    == DOMAIN normalizedCurrent \ DOMAIN normalizedTarget
        oc == InOrder(tableOrder, creates)
        om == InOrder(tableOrder, modifies)
        od == InOrder(tableOrder, drops)
    IN [TablesToCreate |-> [i \in 1..Len(oc) |-> tableDiffOf(oc[i])],
        TablesToDrop   |-> [i \in 1..Len(od) |-> firstCurrent[od[i]]],
        TablesToModify |-> [i \in 1..Len(om) |-> tableDiffOf(om[i])],
        TablesToRename |-> <<>>]

\* A compareSchemas that looks the current table up under the target's own
\* spelling of the name
compareSchemas_RawLookup(current, target, order) ==
    LET normalizedCurrent ==
            [n \in NormalizedNames(current) |-> current[order.lastCurrent[n]]]
        normalizedTarget ==
            [n \in NormalizedNames(target) |-> target[order.lastTarget[n]]]
        creates == {n \in DOMAIN normalizedTarget :
                       normalizedTarget[n].Table \notin DOMAIN normalizedCurrent}
    IN SchemaDiffOf(normalizedCurrent, normalizedTarget, creates, order)

compareSchemas(current, target, order) ==
    LET normalizedCurrent ==
            [n \in NormalizedNames(current) |-> current[order.lastCurrent[n]]]
        normalizedTarget ==
            [n \in NormalizedNames(target) |-> target[order.lastTarget[n]]]
        creates == {n \in DOMAIN normalizedTarget : n \notin DOMAIN normalizedCurrent}
    IN SchemaDiffOf(normalizedCurrent, normalizedTarget, creates, order)

--------------------------------------------------------------------------
(* Schema comparison specification: CompareSchemas on a database and a set *)
(* of models, each built table by table.  Two tables of one schema may     *)
(* carry names that differ in case only.                                   *)

SchemaNames == {"users", "Users", "orders"}

\* The versions of a table
TablePool(name) ==
    { Schema(name, <<IdField, Field("name", "string", FALSE, FALSE, "")>>, <<>>),
      Schema(name, <<IdField, Field("name", "varchar", FALSE, FALSE, ""),
                     Field("email", "string", FALSE, TRUE, "")>>,
             <<Index("idx_email", <<"email">>, "UNIQUE")>>),
      Schema(name, <<IdField, Field("name", "text", FALSE, TRUE, "'active'")>>, <<>>) }

\* The column orders of the tables: one order per normalised name
FieldOrdersOf(current, target) ==
    LET names == NormalizedNames(current) \cup NormalizedNames(target)
        keys  == {"name", "email"}
    IN [names -> Orders(keys)]

InitDiff ==
    /\ currentSchema = EmptyMap
    /\ modelSchemas = EmptyMap
    /\ tableDiff = EmptyTableDiff
    /\ schemaChanges = EmptyDiff
    /\ pcDiff = "schemas"
    /\ InitGenIdle
    /\ InitApplyIdle
    /\ InitFileIdle

\* The database holds one more table
AddCurrentTable ==
    /\ pcDiff = "schemas"
    /\ \E name \in SchemaNames \ DOMAIN currentSchema : \E t \in TablePool(name) :
          currentSchema' = currentSchema @@ (name :> t)
    /\ UNCHANGED <<modelSchemas, tableDiff, schemaChanges, pcDiff>>
    /\ UNCHANGED varsNotDiff

\* The registry holds one more model
AddTargetTable ==
    /\ pcDiff = "schemas"
    /\ \E name \in SchemaNames \ DOMAIN modelSchemas : \E t \in TablePool(name) :
          modelSchemas' = modelSchemas @@ (name :> t)
    /\ UNCHANGED <<currentSchema, tableDiff, schemaChanges, pcDiff>>
    /\ UNCHANGED varsNotDiff

\* comparer.CompareSchemas(currentSchema, modelSchemas), a first time and,
\* after a migration was generated, a second time on the same schemas
CompareSchemas ==
    /\ pcDiff \in {"schemas", "generated"}
    /\ \E lastCurrent \in Originals(currentSchema), lastTarget \in Originals(modelSchemas),
          firstCurrent \in Originals(currentSchema),
          tableOrder \in Orders(NormalizedNames(currentSchema)
                                  \cup NormalizedNames(modelSchemas)),
          fieldOrders \in FieldOrdersOf(currentSchema, modelSchemas),
          indexOrder \in Orders({"idx_email"}) :
          schemaChanges' = compareSchemas(currentSchema, modelSchemas,
                               [lastCurrent |-> lastCurrent, lastTarget |-> lastTarget,
                                firstCurrent |-> firstCurrent, tables |-> tableOrder,
                                fields |-> fieldOrders, indexes |-> indexOrder])
    /\ pcDiff' = IF pcDiff = "schemas" THEN "compared" ELSE "compared again"
    /\ UNCHANGED <<currentSchema, modelSchemas, tableDiff>>
    /\ UNCHANGED varsNotDiff

\* The rest of the generate command: the changes, if any, are handed to the
\* generator, which writes the migration file
GenerateFromChanges ==
    /\ pcDiff \in {"compared", "compared again"}
    /\ LET r == IF hasChanges(schemaChanges) THEN CreateMigrationOutcome(schemaChanges)
                ELSE Outcome(NoError, FALSE, <<>>, <<>>, FALSE)
       IN /\ SchemaDiff' = IF hasChanges(schemaChanges) THEN schemaChanges ELSE SchemaDiff
          /\ genErr' = IF r.err # NoError
                       THEN Wrap("failed to generate migration", r.err) ELSE NoError
          /\ stdout' = IF ~hasChanges(schemaChanges) THEN "No schema changes detected"
                       ELSE IF r.err # NoError THEN "" ELSE "Generated migration"
          /\ upSQL' = r.up
          /\ downSQL' = r.down
          /\ dirExists' = (dirExists \/ r.mkdir)
          /\ files' = IF r.written
                      THEN files \cup {MigrationFile(MigrationName, r.up, r.down)}
                      ELSE files
    /\ pcDiff' = IF pcDiff = "compared" THEN "generated" ELSE "regenerated"
    /\ UNCHANGED <<pcGen, sorted, dbSchema>>
    /\ UNCHANGED <<currentSchema, modelSchemas, tableDiff, schemaChanges>>
    /\ UNCHANGED varsApply
    /\ UNCHANGED varsFile

NextDiff == AddCurrentTable \/ AddTargetTable \/ CompareSchemas \/ GenerateFromChanges

SpecDiff == InitDiff /\ [][NextDiff]_vars

\* No two table names of the schema differ in case only
CaseDistinct(schemas) ==
    \A a, b \in DOMAIN schemas :
        normalizeTableName(a) = normalizeTableName(b) => a = b

(* C1: for every schema S whose table names are distinct ignoring case,    *)
(* comparing S with itself yields an empty diff: no table to create, none  *)
(* to drop, none to rename and none to modify.                             *)
C1_SelfDiffEmpty ==
    (pcDiff = "compared" /\ currentSchema = modelSchemas /\ CaseDistinct(currentSchema))
        => /\ schemaChanges.TablesToCreate = <<>>
           /\ schemaChanges.TablesToDrop = <<>>
           /\ schemaChanges.TablesToRename = <<>>
           /\ schemaChanges.TablesToModify = <<>>

\* A schema of two tables, one with a capital in its name and one with an
\* index, compared with itself
C1_Witness ==
    /\ pcDiff = "compared"
    /\ currentSchema = modelSchemas
    /\ DOMAIN currentSchema = {"Users", "orders"}
    /\ currentSchema["orders"].Indexes # <<>>
    /\ schemaChanges = EmptyDiff

--------------------------------------------------------------------------
(* Application specification: the up and down commands and the Migrator   *)
(* on one database.  A migration is known by its version; its Up runs     *)
(* NumStatements statements and its Down undoes them in reverse.  Any      *)
(* statement, ledger write or commit may fail.                             *)

NumStatements == 2
MaxRegistry == 3

\* The versions of the migrations, in place of the generator's timestamps
Versions == {1, 2, 3}

\* Everything Up of the migration changes in the database
Effects(v) == {<<v, k>> : k \in 1 .. NumStatements}

\* What the k-th statement of Down undoes
DownEffect(v, k) == <<v, NumStatements + 1 - k>>

\* os.ReadDir returns the directory's entries sorted by file name, and a
\* migration's file name starts with its version
ReadDir(dir) ==
    LET RECURSIVE asc(_)
        asc(s) == IF s = {} THEN <<>>
                  ELSE LET least == CHOOSE v \in s : \A w \in s : v <= w
                       IN <<least>> \o asc(s \ {least})
    IN asc(dir)

\* RegisterMigration appends to the global registry
RegisterMigration(registry, v) == Append(registry, v)

\* importMigrationFiles registers the migration of every file it finds
importMigrationFiles(registry, dir) == registry \o ReadDir(dir)

\* sort.Slice by Version, ascending
SortByVersion(migrations) ==
    LET RECURSIVE insert(_, _)
        insert(s, v) == IF s = <<>> THEN <<v>>
                        ELSE IF v < Head(s) THEN <<v>> \o s
                        ELSE <<Head(s)>> \o insert(Tail(s), v)
        RECURSIVE sort(_)
        sort(s) == IF s = <<>> THEN <<>> ELSE insert(sort(Tail(s)), Head(s))
    IN sort(migrations)

\* LoadMigrations: the registry after importing the files, sorted
LoadMigrations(registry, dir) == SortByVersion(importMigrationFiles(registry, dir))

\* GetAppliedVersions / appliedMap: the versions that have a record
GetAppliedVersions(recs) == Range(recs)

\* The migrations of a list that have no record, in the order of the list
Pending(migrations, recs) ==
    SelectSeq(migrations, LAMBDA v : v \notin GetAppliedVersions(recs))

\* A mutant: the record taken is the one applied first
LastAppliedRecord_Oldest(recs) == recs[1]

\* db.Order("applied_at DESC").First(&record)
LastAppliedRecord(recs) == recs[Len(recs)]

\* db.Delete(&record): the row with the record's primary key goes
DeleteRecord(recs, v) == SelectSeq(recs, LAMBDA r : r # v)

\* One migration applied by UpCmd inside db.Begin() ... tx.Commit().
\* failAt = 0: nothing fails; 1..NumStatements: that statement fails;
\* NumStatements + 1: tx.Create fails; NumStatements + 2: tx.Commit fails.
\* The record's Version is the primary key, so tx.Create fails when the
\* version has a record already.  Every failure leaves the transaction
\* uncommitted.
\* A transaction whose failure undoes the whole database and ledger
UpTransaction_RollbackAll(db, recs, v, failAt) ==
    LET fail == IF failAt = 0 /\ v \in Range(recs) THEN NumStatements + 1 ELSE failAt
    IN IF fail = 0
       THEN [db |-> db \cup Effects(v), records |-> Append(recs, v), err |-> ""]
       ELSE [db |-> {}, records |-> <<>>, err |-> "failed to apply migration"]

UpTransaction(db, recs, v, failAt) ==
    LET fail == IF failAt = 0 /\ v \in Range(recs) THEN NumStatements + 1 ELSE failAt
    IN IF fail = 0
       THEN [db |-> db \cup Effects(v), records |-> Append(recs, v), err |-> ""]
       ELSE IF fail <= NumStatements
       THEN [db |-> db, records |-> recs, err |-> "failed to apply migration"]
       ELSE IF fail = NumStatements + 1
       THEN [db |-> db, records |-> recs, err |-> "failed to record migration"]
       ELSE [db |-> db, records |-> recs, err |-> "failed to commit transaction"]

\* The last record reverted by DownCmd inside one transaction
DownTransaction(db, recs, v, failAt) ==
    IF failAt = 0
    THEN [db |-> db \ Effects(v), records |-> DeleteRecord(recs, v), err |-> ""]
    ELSE IF failAt <= NumStatements
    THEN [db |-> db, records |-> recs, err |-> "failed to revert migration"]
    ELSE IF failAt = NumStatements + 1
    THEN [db |-> db, records |-> recs, err |-> "failed to remove migration record"]
    ELSE [db |-> db, records |-> recs, err |-> "failed to commit transaction"]

\* Migrator.Down on the connection itself: every statement of Down that ran
\* before the failure stays; the record goes only when db.Delete succeeds
MigratorDownOutcome(db, recs, v, failAt) ==
    IF failAt = 0
    THEN [db |-> db \ Effects(v), records |-> DeleteRecord(recs, v), err |-> ""]
    ELSE IF failAt <= NumStatements
    THEN [db |-> db \ {DownEffect(v, k) : k \in 1 .. (failAt - 1)}, records |-> recs,
          err |-> "down failed"]
    ELSE [db |-> db \ Effects(v), records |-> recs, err |-> "delete failed"]

\* The migration whose Up starts, and the known migrations without a record
Run(v, known) ==
    [version |-> v, pending |-> {p \in known : p \notin Range(records)} \ {v}]

InitApply ==
    /\ InitGenIdle
    /\ InitDiffIdle
    /\ InitApplyIdle
    /\ InitFileIdle

\* No command has run yet
BeforeFirstCommand ==
    /\ records = <<>> /\ dbEffects = {}
    /\ applyErr = "" /\ lastRun = NoRun /\ upRun = NewRun
    /\ loaded = NotLoaded

\* A migration package's init() registers its migration, before main runs
Register(v) ==
    /\ pcApply = "idle"
    /\ BeforeFirstCommand
    /\ v \notin Range(globalMigrations)
    /\ globalMigrations' = RegisterMigration(globalMigrations, v)
    /\ UNCHANGED <<migrationFiles, dbEffects, records, pcApply, queue, stmtIdx,
                   applyErr, lastRun, upRun, loaded>>
    /\ UNCHANGED varsNotApply

\* A migration file is in the migrations directory when the commands start
WriteMigrationFile(v) ==
    /\ pcApply = "idle"
    /\ BeforeFirstCommand
    /\ v \notin migrationFiles
    /\ migrationFiles' = migrationFiles \cup {v}
    /\ UNCHANGED <<globalMigrations, dbEffects, records, pcApply, queue, stmtIdx,
                   applyErr, lastRun, upRun, loaded>>
    /\ UNCHANGED varsNotApply

\* UpCmd up to its loop: load, read the records, collect the pending
UpCmd(dryRun) ==
    /\ pcApply = "idle"
    /\ Len(globalMigrations) + Cardinality(migrationFiles) <= MaxRegistry
    /\ globalMigrations' = importMigrationFiles(globalMigrations, migrationFiles)
    /\ LET migrations == LoadMigrations(globalMigrations, migrationFiles)
           pending == Pending(migrations, records)
       IN IF pending = <<>> \/ dryRun
          THEN /\ pcApply' = "idle"
               /\ queue' = <<>>
          ELSE /\ pcApply' = "UpCmd"
               /\ queue' = pending
    /\ applyErr' = ""
    /\ upRun' = NewRun
    /\ loaded' = LoadMigrations(globalMigrations, migrationFiles)
    /\ UNCHANGED <<migrationFiles, dbEffects, records, stmtIdx, lastRun>>
    /\ UNCHANGED varsNotApply

\* One turn of UpCmd's loop: the next pending migration in a transaction
UpCmdApply(failAt) ==
    /\ pcApply = "UpCmd"
    /\ queue # <<>>
    /\ LET mr == Head(queue)
           tx == UpTransaction(dbEffects, records, mr, failAt)
       IN /\ dbEffects' = tx.db
          /\ records' = tx.records
          /\ applyErr' = tx.err
          /\ lastRun' = Run(mr, Range(globalMigrations))
          /\ upRun' = IF tx.err = "" THEN [upRun EXCEPT !.committed = Append(@, mr)]
                      ELSE [upRun EXCEPT !.failed = mr]
          /\ IF tx.err = "" /\ Tail(queue) # <<>>
             THEN /\ queue' = Tail(queue)
                  /\ pcApply' = "UpCmd"
             ELSE /\ queue' = <<>>
                  /\ pcApply' = "idle"
    /\ UNCHANGED <<globalMigrations, migrationFiles, stmtIdx, loaded>>
    /\ UNCHANGED varsNotApply

\* DownCmd: the record applied last is reverted in a transaction
DownCmd(failAt) ==
    /\ pcApply = "idle"
    /\ Len(globalMigrations) + Cardinality(migrationFiles) <= MaxRegistry
    /\ IF records = <<>>
       THEN /\ applyErr' = "no migrations to revert"
            /\ UNCHANGED <<globalMigrations, dbEffects, records, loaded>>
       ELSE LET record == LastAppliedRecord(records)
                migrations == LoadMigrations(globalMigrations, migrationFiles)
                tx == DownTransaction(dbEffects, records, record, failAt)
            IN /\ globalMigrations' = importMigrationFiles(globalMigrations, migrationFiles)
               /\ loaded' = migrations
               /\ IF record \notin Range(migrations)
                  THEN /\ applyErr' = "migration file not found"
                       /\ UNCHANGED <<dbEffects, records>>
                  ELSE /\ dbEffects' = tx.db
                       /\ records' = tx.records
                       /\ applyErr' = tx.err
    /\ upRun' = IF records # <<>> /\ LastAppliedRecord(records) \in Range(globalMigrations')
                THEN DownRun(LastAppliedRecord(records), applyErr')
                ELSE DownRun(0, applyErr')
    /\ UNCHANGED <<migrationFiles, pcApply, queue, stmtIdx, lastRun>>
    /\ UNCHANGED varsNotApply

\* NewMigrator and Migrator.Up up to the loop: the registry as registered,
\* less the versions that have a record
MigratorUp ==
    /\ pcApply = "idle"
    /\ LET pending == Pending(globalMigrations, records)
       IN IF pending = <<>>
          THEN /\ pcApply' = "idle"
               /\ queue' = <<>>
          ELSE /\ pcApply' = "Migrator.Up"
               /\ queue' = pending
    /\ stmtIdx' = 0
    /\ applyErr' = ""
    /\ upRun' = NewRun
    /\ UNCHANGED <<globalMigrations, migrationFiles, dbEffects, records, lastRun, loaded>>
    /\ UNCHANGED varsNotApply

\* mr.Up(m.db): the next statement runs on the connection itself
MigratorExec(ok) ==
    /\ pcApply = "Migrator.Up"
    /\ queue # <<>>
    /\ stmtIdx < NumStatements
    /\ lastRun' = IF stmtIdx = 0
                  THEN Run(Head(queue), Range(globalMigrations))
                  ELSE lastRun
    /\ IF ok
       THEN /\ dbEffects' = dbEffects \cup {<<Head(queue), stmtIdx + 1>>}
            /\ stmtIdx' = stmtIdx + 1
            /\ UNCHANGED <<pcApply, queue, applyErr, upRun>>
       ELSE /\ applyErr' = "up failed"
            /\ upRun' = [upRun EXCEPT !.failed = Head(queue)]
            /\ pcApply' = "idle"
            /\ queue' = <<>>
            /\ stmtIdx' = 0
            /\ UNCHANGED dbEffects
    /\ UNCHANGED <<globalMigrations, migrationFiles, records, loaded>>
    /\ UNCHANGED varsNotApply

\* m.db.Create(&record) after the migration's statements
MigratorRecord(ok) ==
    /\ pcApply = "Migrator.Up"
    /\ queue # <<>>
    /\ stmtIdx = NumStatements
    /\ IF ok /\ Head(queue) \notin Range(records)
       THEN /\ records' = Append(records, Head(queue))
            /\ queue' = Tail(queue)
            /\ pcApply' = IF Tail(queue) = <<>> THEN "idle" ELSE "Migrator.Up"
            /\ upRun' = [upRun EXCEPT !.committed = Append(@, Head(queue))]
            /\ UNCHANGED applyErr
       ELSE /\ applyErr' = "create failed"
            /\ upRun' = [upRun EXCEPT !.failed = Head(queue)]
            /\ pcApply' = "idle"
            /\ queue' = <<>>
            /\ UNCHANGED records
    /\ stmtIdx' = 0
    /\ UNCHANGED <<globalMigrations, migrationFiles, dbEffects, lastRun, loaded>>
    /\ UNCHANGED varsNotApply

\* Migrator.Down: the record applied last, reverted on the connection itself
MigratorDown(failAt) ==
    /\ pcApply = "idle"
    /\ IF records = <<>>
       THEN /\ applyErr' = "record not found"
            /\ UNCHANGED <<dbEffects, records>>
       ELSE LET lastRecord == LastAppliedRecord(records)
                out == MigratorDownOutcome(dbEffects, records, lastRecord, failAt)
            IN IF lastRecord \notin Range(globalMigrations)
               THEN /\ applyErr' = ""
                    /\ UNCHANGED <<dbEffects, records>>
               ELSE /\ dbEffects' = out.db
                    /\ records' = out.records
                    /\ applyErr' = out.err
    /\ upRun' = IF records # <<>> /\ LastAppliedRecord(records) \in Range(globalMigrations)
                THEN DownRun(LastAppliedRecord(records), applyErr')
                ELSE DownRun(0, applyErr')
    /\ UNCHANGED <<globalMigrations, migrationFiles, pcApply, queue, stmtIdx, lastRun,
                   loaded>>
    /\ UNCHANGED varsNotApply

\* An applied migration is deleted from the project: the next process has
\* it neither in its registry nor in its migrations directory
RemoveMigration(v) ==
    /\ pcApply = "idle"
    /\ v \in Range(records)
    /\ v \in Range(globalMigrations) \cup migrationFiles
    /\ globalMigrations' = SelectSeq(globalMigrations, LAMBDA m : m # v)
    /\ migrationFiles' = migrationFiles \ {v}
    /\ loaded' = NotLoaded
    /\ UNCHANGED <<dbEffects, records, pcApply, queue, stmtIdx, applyErr, lastRun, upRun>>
    /\ UNCHANGED varsNotApply

NextApply ==
    \/ \E v \in Versions : Register(v)
    \/ \E v \in Versions : WriteMigrationFile(v)
    \/ \E v \in Versions : RemoveMigration(v)
    \/ \E dryRun \in BOOLEAN : UpCmd(dryRun)
    \/ \E failAt \in 0 .. (NumStatements + 2) : UpCmdApply(failAt)
    \/ \E failAt \in 0 .. (NumStatements + 2) : DownCmd(failAt)
    \/ MigratorUp
    \/ \E ok \in BOOLEAN : MigratorExec(ok)
    \/ \E ok \in BOOLEAN : MigratorRecord(ok)
    \/ \E failAt \in 0 .. (NumStatements + 1) : MigratorDown(failAt)

SpecApply == InitApply /\ [][NextApply]_vars

\* The database holds all of a recorded migration and nothing of any other
LedgerAgrees ==
    \A v \in Versions :
        IF v \in Range(records) THEN Effects(v) \subseteq dbEffects
        ELSE Effects(v) \cap dbEffects = {}

(* C4: whenever a command has returned, the database and the version      *)
(* ledger agree: a migration either has all its statements in effect and  *)
(* its record written, or none of its changes persist and it has no       *)
(* record, also after a statement or the ledger write failed.             *)
C4_AtomicMigration == pcApply = "idle" => LedgerAgrees

(* C7: no migration is executed while a migration with a smaller version  *)
(* is still pending, whatever the order of registration.                  *)
C7_AscendingOrder ==
    lastRun # NoRun => \A p \in lastRun.pending : lastRun.version < p

--------------------------------------------------------------------------
(* Further claims on the generator specification                          *)

\* A foreign key of a table to create whose owning column the table does
\* not add
OrphanForeignKey(t) ==
    \E fk \in Range(t.ForeignKeysToAdd) : fk.HasField /\ fk.Field \notin ColumnsOf(t)

\* A foreign key of a table to create to a table that is not created
DanglingForeignKey(diff, t) ==
    \E fk \in Range(t.ForeignKeysToAdd) :
        fk.Table # "" /\ fk.Table \notin CreateNames(diff)

\* A table to create with a name and with columns validation accepts
SoundColumns(t) ==
    /\ t.Table # ""
    /\ \A i \in 1..Len(t.FieldsToAdd) :
          /\ t.FieldsToAdd[i].DBName # ""
          /\ isValidColumnType(t.FieldsToAdd[i].DataType)
          /\ \A j \in 1..Len(t.FieldsToAdd) :
                i # j => t.FieldsToAdd[i].DBName # t.FieldsToAdd[j].DBName

\* The error came back with this message, from CreateMigration or wrapped
\* by the generate command
Reported(msg) == genErr.kind \in {msg, "failed to generate migration: " \o msg}

EmptyTableName(t) == t.Table = ""
DuplicateColumn(t) ==
    \E i, j \in 1..Len(t.FieldsToAdd) :
        i # j /\ t.FieldsToAdd[i].DBName = t.FieldsToAdd[j].DBName
OutsideVocabulary(columnType) == BaseType(columnType) \notin validTypes
UnknownType(t) ==
    \E i \in 1..Len(t.FieldsToAdd) : OutsideVocabulary(t.FieldsToAdd[i].DataType)
OrphanIndex(t) ==
    \E idx \in Range(t.IndexesToAdd) : ~(Range(idx.Fields) \subseteq ColumnsOf(t))

DefectMessages(t) ==
    {m \in {"table name cannot be empty", "duplicate column name",
            "unsupported column type", "index references non-existent column"} :
        \/ m = "table name cannot be empty" /\ EmptyTableName(t)
        \/ m = "duplicate column name" /\ DuplicateColumn(t)
        \/ m = "unsupported column type" /\ UnknownType(t)
        \/ m = "index references non-existent column" /\ OrphanIndex(t)}

\* No defect of any other kind: no column without a name, no foreign key on
\* a missing column, no type the type pattern refuses
NoOtherDefect(t) ==
    /\ \A i \in 1..Len(t.FieldsToAdd) :
          /\ t.FieldsToAdd[i].DBName # ""
          /\ OutsideVocabulary(t.FieldsToAdd[i].DataType)
               \/ isValidColumnType(t.FieldsToAdd[i].DataType)
    /\ ~OrphanForeignKey(t)

(* C12: a diff in which a table to create has an empty name, two added    *)
(* columns of the same name, an added column whose type (bare or with      *)
(* parameters) is outside the known types, or an added index on a column   *)
(* the table does not add, is rejected by validation before anything is    *)
(* created or written; when the table has one of these four defects only   *)
(* and no earlier table has any, the error carries that defect's own       *)
(* message.                                                                *)
C12_DefectsRejected ==
    pcGen = "done" =>
        \A i \in 1..Len(SchemaDiff.TablesToCreate) :
            LET t == SchemaDiff.TablesToCreate[i]
            IN /\ DefectMessages(t) # {} =>
                      /\ genErr # NoError
                      /\ files = {} /\ ~dirExists
                      /\ upSQL = <<>> /\ downSQL = <<>>
               /\ \A m \in DefectMessages(t) :
                      (/\ DefectMessages(t) = {m}
                       /\ NoOtherDefect(t)
                       /\ \A j \in 1..(i - 1) : ~DefectiveTable(SchemaDiff.TablesToCreate[j]))
                          => Reported("invalid schema diff: " \o m)

\* A sound table followed by a table whose only defect is a column of a
\* parameterized type outside the known types
C12_Witness ==
    /\ pcGen = "done"
    /\ Len(SchemaDiff.TablesToCreate) = 2
    /\ ~DefectiveTable(SchemaDiff.TablesToCreate[1])
    /\ DefectMessages(SchemaDiff.TablesToCreate[2]) = {"unsupported column type"}
    /\ \E i \in 1..Len(SchemaDiff.TablesToCreate[2].FieldsToAdd) :
          SchemaDiff.TablesToCreate[2].FieldsToAdd[i].DataType = "blob(16)"
    /\ genErr.kind = "invalid schema diff: unsupported column type"
    /\ files = {}

\* A statement of the SQL with this operation on this column of the table
HasColumnStmt(sql, op, table, column) ==
    \E i \in 1..Len(sql) :
        sql[i].op = op /\ sql[i].table = table /\ sql[i].name = column

(* C13 as stated: for every modified table of a generated migration, the   *)
(* down SQL holds a DROP COLUMN for each column the up SQL adds, an ADD     *)
(* COLUMN with the original definition for each column the up SQL drops,   *)
(* and a manual-intervention placeholder for each column the up SQL alters.*)
C13_DownReversesColumns ==
    (pcGen = "done" /\ genErr = NoError /\ files # {}) =>
        \A i \in 1..Len(SchemaDiff.TablesToModify) :
            LET t == SchemaDiff.TablesToModify[i]
            IN /\ \A c \in Range(t.FieldsToAdd) :
                      HasColumnStmt(upSQL, "ADD COLUMN", t.Table, c.DBName)
                          => HasColumnStmt(downSQL, "DROP COLUMN", t.Table, c.DBName)
               /\ \A c \in Range(t.FieldsToDrop) :
                      HasColumnStmt(upSQL, "DROP COLUMN", t.Table, c.DBName)
                          => \E k \in 1..Len(downSQL) :
                                 /\ downSQL[k].op = "ADD COLUMN"
                                 /\ downSQL[k].table = t.Table
                                 /\ downSQL[k].columns = <<AlterColumnDef(c)>>
               /\ \A c \in Range(t.FieldsToModify) :
                      HasColumnStmt(upSQL, "ALTER COLUMN", t.Table, c.DBName)
                          => HasColumnStmt(downSQL, "TODO", t.Table, c.DBName)


--------------------------------------------------------------------------
(* Further claims on the schema comparison specification                  *)

\* Some table of the schema has this name, letter case aside
HasTableIgnoringCase(schemas, name) ==
    \E other \in DOMAIN schemas : normalizeTableName(other) = normalizeTableName(name)

CreatedTables(changes) ==
    {changes.TablesToCreate[i].Table : i \in 1..Len(changes.TablesToCreate)}

(* C14: tables are matched by lower-cased name.  For schemas whose table   *)
(* names are distinct ignoring case, a target table is among the tables to *)
(* create exactly when no current table has its lower-cased name, and a    *)
(* current table is among the tables to drop, under its original name,     *)
(* exactly when no target table has its lower-cased name; each is listed   *)
(* once and nothing else is listed.                                        *)
C14_CaseInsensitiveTables ==
    (pcDiff = "compared" /\ CaseDistinct(currentSchema) /\ CaseDistinct(modelSchemas)) =>
        /\ \A name \in DOMAIN modelSchemas :
              name \in CreatedTables(schemaChanges)
                  <=> ~HasTableIgnoringCase(currentSchema, name)
        /\ \A name \in DOMAIN currentSchema :
              name \in Range(schemaChanges.TablesToDrop)
                  <=> ~HasTableIgnoringCase(modelSchemas, name)
        /\ CreatedTables(schemaChanges) \subseteq DOMAIN modelSchemas
        /\ Range(schemaChanges.TablesToDrop) \subseteq DOMAIN currentSchema
        /\ Len(schemaChanges.TablesToCreate) = Cardinality(CreatedTables(schemaChanges))
        /\ Len(schemaChanges.TablesToDrop) = Cardinality(Range(schemaChanges.TablesToDrop))

\* The database holds Users and the models hold orders only: orders is
\* created and Users is dropped under that name
C14_Witness ==
    /\ pcDiff = "compared"
    /\ DOMAIN currentSchema = {"Users"}
    /\ DOMAIN modelSchemas = {"orders"}
    /\ CreatedTables(schemaChanges) = {"orders"}
    /\ schemaChanges.TablesToDrop = <<"Users">>


\* The entries of the tables to create made for the table
CreateEntries(changes, name) ==
    {changes.TablesToCreate[i] : i \in {j \in 1..Len(changes.TablesToCreate) :
                                            changes.TablesToCreate[j].Table = name}}

\* The entry names every column and every index of the table as to add
CarriesDefinition(entry, table) ==
    /\ {f.DBName : f \in Range(table.Fields)}
           \subseteq {f.DBName : f \in Range(entry.FieldsToAdd)}
    /\ {x.Name : x \in Range(table.Indexes)}
           \subseteq {x.Name : x \in Range(entry.IndexesToAdd)}

(* C20 as stated: for every target table the current schema does not have, *)
(* the tables to create hold an entry whose to-add lists name every column *)
(* and every index of the target table.                                    *)
C20_CreateCarriesDefinition ==
    (pcDiff = "compared" /\ CaseDistinct(modelSchemas)) =>
        \A name \in DOMAIN modelSchemas :
            ~HasTableIgnoringCase(currentSchema, name) =>
                /\ CreateEntries(schemaChanges, name) # {}
                /\ \A entry \in CreateEntries(schemaChanges, name) :
                      CarriesDefinition(entry, modelSchemas[name])

--------------------------------------------------------------------------
(* Further claims on the table comparison specification                   *)

AddedColumns(d)    == {f.DBName : f \in Range(d.FieldsToAdd)}
DroppedColumns(d)  == {f.DBName : f \in Range(d.FieldsToDrop)}
ModifiedColumns(d) == {f.DBName : f \in Range(d.FieldsToModify)}

(* C15 as stated: a column whose name differs at most in letter case       *)
(* between the database's and the models' version of a table is neither   *)
(* proposed as an addition nor as a drop.                                  *)
C15_CaseInsensitiveColumns ==
    pcDiff = "compared" =>
        \A c \in Range(currentSchema["users"].Fields), t \in Range(modelSchemas["users"].Fields) :
            ToLower(c.DBName) = ToLower(t.DBName)
                => /\ t.DBName \notin AddedColumns(tableDiff)
                   /\ c.DBName \notin DroppedColumns(tableDiff)


\* The columns the database's and the models' version of users both have,
\* under the same name
SharedColumns ==
    {<<c, t>> \in Range(currentSchema["users"].Fields) \X Range(modelSchemas["users"].Fields) :
        c.DBName = t.DBName}

\* The differences that make a column a modification
ColumnsDiffer(c, t) ==
    \/ normalizeDBType(c.DataType) # normalizeDBType(t.DataType)
    \/ c.PrimaryKey # t.PrimaryKey
    \/ c.Unique # t.Unique
    \/ normalizeDefaultValue(c.DefaultValue) # normalizeDefaultValue(t.DefaultValue)
    \/ c.AutoIncrement # t.AutoIncrement
    \/ (~c.PrimaryKey /\ ~t.PrimaryKey /\ c.NotNull # t.NotNull)

(* C19 as stated: a column present in both versions of a table is in the   *)
(* to-modify list exactly when the two differ in normalized type, primary  *)
(* key flag, unique flag, normalized default, auto-increment flag or, for  *)
(* columns that are not primary keys, nullability; id included.            *)
C19_ModifiedWhenDifferent ==
    pcDiff = "compared" =>
        \A p \in SharedColumns :
            p[2].DBName \in ModifiedColumns(tableDiff) <=> ColumnsDiffer(p[1], p[2])

\* The column names of a table
ColumnNames(schema) == {f.DBName : f \in Range(schema.Fields)}

\* The column names of the table once the table diff is applied to it
ColumnsAfter(schema, d) == (ColumnNames(schema) \ DroppedColumns(d)) \cup AddedColumns(d)

(* C25 as stated: applying the column additions, drops and modifications   *)
(* of the table diff to the current table gives a table with the column    *)
(* names of the target table.                                              *)
C25_ColumnsReconciled ==
    pcDiff = "compared" =>
        ColumnsAfter(currentSchema["users"], tableDiff) = ColumnNames(modelSchemas["users"])

--------------------------------------------------------------------------
(* Further claims on the application specification                        *)

(* C16: when an up run (the up command or Migrator.Up) fails on a         *)
(* migration, the run ends there: every migration it committed before     *)
(* keeps its record and all its statements' effects, and no migration is  *)
(* started after the one that failed.                                     *)
C16_FailureStopsRun ==
    upRun.failed # 0 =>
        /\ pcApply = "idle" /\ queue = <<>>
        /\ applyErr # ""
        /\ lastRun.version = upRun.failed
        /\ \A v \in Range(upRun.committed) :
              v \in Range(records) /\ Effects(v) \subseteq dbEffects

\* The up command committed version 1 and failed on version 2 while
\* version 3 was pending behind it
C16_Witness ==
    /\ upRun = [NewRun EXCEPT !.committed = <<1>>, !.failed = 2]
    /\ applyErr = "failed to apply migration"
    /\ lastRun = [version |-> 2, pending |-> {3}]
    /\ records = <<1>>
    /\ dbEffects = Effects(1)


--------------------------------------------------------------------------
(* Claims on the pipeline from schemas to SQL                             *)

(* C17 as stated: running the comparison and the generation twice on the  *)
(* same current and target schemas yields the same up SQL and the same    *)
(* down SQL, statement order included.                                     *)
C17_Deterministic ==
    pcDiff = "regenerated" =>
        \A f \in files :
            /\ f.Up = formatSQLAsExec(upSQL)
            /\ f.Down = formatSQLAsExec(downSQL)


--------------------------------------------------------------------------
(* Claims on Down                                                         *)

\* The record applied last
LastRecord == records[Len(records)]

\* Only the last record's statements were undone, if anything was
OnlyLastTouched ==
    /\ dbEffects' \subseteq dbEffects
    /\ dbEffects \ dbEffects' \subseteq Effects(LastRecord)

(* C18: a step of Down that removes a ledger record removes the record    *)
(* applied last and no other, undoes all that migration's Up changed in   *)
(* the database, and leaves what every other migration changed in place;  *)
(* a command that applies nothing removes nothing from the database but   *)
(* what the migration applied last changed; and a Down that reports a     *)
(* migration reverted has done all of this.                               *)
C18_DownRevertsLast ==
    [][ /\ Len(records') < Len(records) =>
            /\ records' = SubSeq(records, 1, Len(records) - 1)
            /\ dbEffects' = dbEffects \ Effects(LastRecord)
            /\ upRun'.reverted = LastRecord
        /\ (records # <<>> /\ pcApply = "idle" /\ pcApply' = "idle") => OnlyLastTouched
        /\ (upRun' # upRun /\ upRun'.reverted # 0) =>
              /\ records # <<>> /\ upRun'.reverted = LastRecord
              /\ records' = SubSeq(records, 1, Len(records) - 1)
              /\ dbEffects' = dbEffects \ Effects(LastRecord) ]_vars

C18_Witness ==
    /\ upRun.reverted = 3
    /\ records = <<1, 2>>
    /\ dbEffects = Effects(1) \cup Effects(2)
    /\ applyErr = ""


--------------------------------------------------------------------------
(* Claims on what the comparison leaves out                               *)

\* The table diffs of the tables both schemas have
ModifyEntries(changes) == Range(changes.TablesToModify)

\* The tables of this name, letter case aside
TablesNamed(schemas, name) ==
    {schemas[k] : k \in {o \in DOMAIN schemas : normalizeTableName(o) = normalizeTableName(name)}}

(* C21: for a table that has columns in the current schema, the diff       *)
(* proposes no index addition, drop or modification, whatever the indexes  *)
(* of the two versions of the table.                                       *)
C21_NoIndexDiffOnExistingTable ==
    pcDiff = "compared" =>
        \A entry \in ModifyEntries(schemaChanges) :
            (\E c \in TablesNamed(currentSchema, entry.Table) : Len(c.Fields) > 0)
                => /\ entry.IndexesToAdd = <<>>
                   /\ entry.IndexesToDrop = <<>>
                   /\ entry.IndexesToModify = <<>>

C21_Witness ==
    /\ pcDiff = "compared"
    /\ DOMAIN currentSchema = {"users"} /\ DOMAIN modelSchemas = {"users"}
    /\ currentSchema["users"].Indexes = <<>>
    /\ Len(modelSchemas["users"].Indexes) = 1
    /\ Len(schemaChanges.TablesToModify) = 1
    /\ schemaChanges.TablesToModify[1].IndexesToAdd = <<>>


--------------------------------------------------------------------------
(* Foreign-key comparison specification: CompareTable on two versions of  *)
(* the table orders, each with the foreign keys it was given.             *)

\* The tables orders can refer to
ReferencedTables == {"users", "items"}

\* A foreign-key column of orders and its relationship
ForeignKeyColumns(ref) == {Field(RefColumn(ref), ty, FALSE, TRUE, "") : ty \in {"int", "uint"}}

WithForeignKey(schema, column, ref) ==
    [schema EXCEPT !.Fields = Append(@, column),
                   !.Relationships = Append(@, Relationship(TRUE, column.DBName, ref))]

\* The tables a version of orders refers to
RefersTo(schema) == {r.Table : r \in Range(schema.Relationships)}

InitRel ==
    /\ currentSchema = ("orders" :> Schema("orders", <<IdField>>, <<>>))
    /\ modelSchemas = ("orders" :> Schema("orders", <<IdField>>, <<>>))
    /\ tableDiff = EmptyTableDiff
    /\ schemaChanges = EmptyDiff
    /\ pcDiff = "relations"
    /\ InitGenIdle
    /\ InitApplyIdle
    /\ InitFileIdle

\* The database's orders table has one more foreign key
AddCurrentRelationship ==
    /\ pcDiff = "relations"
    /\ \E ref \in ReferencedTables \ RefersTo(currentSchema["orders"]) :
          \E column \in ForeignKeyColumns(ref) :
             currentSchema' = [currentSchema EXCEPT
                                  !["orders"] = WithForeignKey(@, column, ref)]
    /\ UNCHANGED <<modelSchemas, tableDiff, schemaChanges, pcDiff>>
    /\ UNCHANGED varsNotDiff

\* The model of orders declares one more belongs-to relationship
AddTargetRelationship ==
    /\ pcDiff = "relations"
    /\ \E ref \in ReferencedTables \ RefersTo(modelSchemas["orders"]) :
          \E column \in ForeignKeyColumns(ref) :
             modelSchemas' = [modelSchemas EXCEPT
                                 !["orders"] = WithForeignKey(@, column, ref)]
    /\ UNCHANGED <<currentSchema, tableDiff, schemaChanges, pcDiff>>
    /\ UNCHANGED varsNotDiff

\* comparer.CompareTable(current, target) on the two versions of orders
CompareRelationships ==
    /\ pcDiff = "relations"
    /\ LET cur == currentSchema["orders"]
           tgt == modelSchemas["orders"]
       IN \E fieldOrder \in Orders(FieldKeys(cur, tgt)),
             indexOrder \in Orders(IndexKeys(cur, tgt)) :
             tableDiff' = compareTable(cur, tgt, fieldOrder, indexOrder)
    /\ pcDiff' = "compared"
    /\ UNCHANGED <<currentSchema, modelSchemas, schemaChanges>>
    /\ UNCHANGED varsNotDiff

NextRel == AddCurrentRelationship \/ AddTargetRelationship \/ CompareRelationships

SpecRel == InitRel /\ [][NextRel]_vars

(* C22: whatever foreign keys the two versions of a table have, the table  *)
(* diff proposes no foreign key to drop.                                   *)
C22_NoForeignKeyDrop ==
    pcDiff = "compared" => tableDiff.ForeignKeysToDrop = <<>>

C22_Witness ==
    /\ pcDiff = "compared"
    /\ RefersTo(currentSchema["orders"]) = {"users", "items"}
    /\ RefersTo(modelSchemas["orders"]) = {"items"}
    /\ tableDiff.ForeignKeysToDrop = <<>>
    /\ {f.DBName : f \in Range(tableDiff.FieldsToDrop)} = {"user_id"}


--------------------------------------------------------------------------
(* Further claims on the generator specification                          *)

(* C23 as stated: IsEmpty is true of a table diff exactly when every one   *)
(* of its lists is empty: the columns, indexes and foreign keys to add,    *)
(* drop and modify, and the column renames.                                *)
C23_IsEmptyIffNoChange ==
    \A t \in Range(SchemaDiff.TablesToModify) : IsEmpty(t) <=> NoTableChange(t)


--------------------------------------------------------------------------
(* Default-value comparison specification: CompareTable on two versions   *)
(* of users that differ in the default of the column status only.         *)

\* The spellings of a default: the documented equivalents, quoted and
\* capitalised forms, and plain literals
DefaultSpellings ==
    {"", "NULL", "'NULL'", "DEFAULT NULL", "0", "0.0", "'0'", "1",
     "nextval('users_id_seq'::regclass)", "nextval('orders_id_seq'::regclass)",
     "now()", "NOW()", "CURRENT_TIMESTAMP", "current_timestamp()",
     "'active'", "Active", "inactive", "TRUE", "true"}

StatusColumn(dv) == Field("status", "string", FALSE, TRUE, dv)

StatusTable(dv) == Schema("users", <<IdField, StatusColumn(dv)>>, <<>>)

\* The default of status in a version of users
StatusDefault(schemas) == schemas["users"].Fields[2].DefaultValue

InitDefault ==
    /\ \E dv \in DefaultSpellings : currentSchema = ("users" :> StatusTable(dv))
    /\ \E dv \in DefaultSpellings : modelSchemas = ("users" :> StatusTable(dv))
    /\ tableDiff = EmptyTableDiff
    /\ schemaChanges = EmptyDiff
    /\ pcDiff = "defaults"
    /\ InitGenIdle
    /\ InitApplyIdle
    /\ InitFileIdle

\* comparer.CompareTable(current, target) on the two versions of users
CompareDefaults ==
    /\ pcDiff = "defaults"
    /\ LET cur == currentSchema["users"]
           tgt == modelSchemas["users"]
       IN \E fieldOrder \in Orders(FieldKeys(cur, tgt)),
             indexOrder \in Orders(IndexKeys(cur, tgt)) :
             tableDiff' = compareTable(cur, tgt, fieldOrder, indexOrder)
    /\ pcDiff' = "compared"
    /\ UNCHANGED <<currentSchema, modelSchemas, schemaChanges>>
    /\ UNCHANGED varsNotDiff

NextDefault == CompareDefaults

SpecDefault == InitDefault /\ [][NextDefault]_vars

\* A default without its quotes, in lower case
DefaultLiteral(dv) == ToLower(TrimQuotes(dv))

\* The documented classes of equivalent defaults
DefaultClasses ==
    { {"", "null", "default null"},
      {"0", "0.0"},
      {"nextval('users_id_seq'::regclass)", "nextval('orders_id_seq'::regclass)"},
      {"now()", "current_timestamp", "current_timestamp()"} }

EquivalentDefaults(a, b) ==
    \/ DefaultLiteral(a) = DefaultLiteral(b)
    \/ \E class \in DefaultClasses : DefaultLiteral(a) \in class /\ DefaultLiteral(b) \in class

(* C24: two defaults that differ in quoting or letter case only, or that   *)
(* belong to one documented class of equivalents, cause no column          *)
(* modification; any other two defaults do, being compared as literals     *)
(* without quotes and in lower case.                                       *)
C24_DefaultsNormalized ==
    pcDiff = "compared" =>
        ("status" \in ModifiedColumns(tableDiff)
            <=> ~EquivalentDefaults(StatusDefault(currentSchema), StatusDefault(modelSchemas)))

C24_Witness ==
    /\ pcDiff = "compared"
    /\ StatusDefault(currentSchema) = "'NULL'"
    /\ StatusDefault(modelSchemas) = ""
    /\ tableDiff.FieldsToModify = <<>>


(* C26 as stated: when a migration was generated, its up SQL holds a       *)
(* statement dropping each table of TablesToDrop, and is never without     *)
(* statements.                                                             *)
C26_DropsRendered ==
    (pcGen = "done" /\ genErr = NoError /\ files # {}) =>
        /\ upSQL # <<>>
        /\ \A name \in Range(SchemaDiff.TablesToDrop) :
              \E i \in 1..Len(upSQL) :
                  upSQL[i].op = "DROP TABLE" /\ upSQL[i].table = name


--------------------------------------------------------------------------
(* Further claims on Up                                                   *)

\* The migration whose Up the running command executes next
UpIsNext(v) ==
    /\ pcApply \in {"UpCmd", "Migrator.Up"}
    /\ queue # <<>> /\ Head(queue) = v
    /\ stmtIdx = 0

(* C27 as stated: no version has more than one record in the ledger, no    *)
(* migration whose version has a record is executed again, whatever the    *)
(* list of migrations repeats, and a run enters its loop only with         *)
(* something pending.                                                      *)
C27_ExecutedOnce ==
    /\ IsInjective(records)
    /\ \A v \in Versions : UpIsNext(v) => v \notin Range(records)
    /\ pcApply # "idle" => queue # <<>>


--------------------------------------------------------------------------
(* Claims on loading                                                      *)

(* C28 as stated: on an unchanged migrations directory LoadMigrations      *)
(* returns the same list at every call, with one entry per migration       *)
(* file, and the registry does not grow after the first call.              *)
C28_LoadIdempotent ==
    [][ (loaded # NotLoaded /\ loaded' # NotLoaded /\ migrationFiles' = migrationFiles) =>
            /\ loaded' = loaded
            /\ globalMigrations' = globalMigrations ]_vars


(* C29 as stated: Down does not report success without having reverted a   *)
(* migration; when the version applied last matches no migration it        *)
(* returns an error.                                                       *)
C29_DownSuccessMeansReverted ==
    upRun.down = "ok" => upRun.reverted # 0


--------------------------------------------------------------------------
(* A migration file as text: what CreateMigration writes and what the      *)
(* loader reads back.  A text is a sequence of tokens, the pieces of text  *)
(* the loader's searches can tell apart; white space inside a line is left *)
(* out, NL is a line break.  A line is a text without NL.                  *)

NL == "\n"

\* The backtick character, which opens and closes a raw string of Go
Backtick == "BACKTICK"

\* quoteIdentifier
quoteIdentifier(name) == <<"\"", name, "\"">>

\* strings.Join(parts, ", ")
RECURSIVE JoinTexts(_, _)
JoinTexts(parts, sep) ==
    IF parts = <<>> THEN <<>>
    ELSE IF Len(parts) = 1 THEN parts[1]
    ELSE parts[1] \o sep \o JoinTexts(Tail(parts), sep)

\* The default literals of the columns written to files, token by token
DefaultText(dv) ==
    CASE dv = "'{}'"                -> <<"'", "{", "}", "'">>
      [] dv = "'{}'::jsonb"         -> <<"'", "{", "}", "'", "::jsonb">>
      [] dv = "'{\"a\":{},\"b\":1}'" ->
             <<"'", "{", "\"", "a", "\"", ":", "{", "}", ",", "\"", "b", "\"",
               ":", "1", "}", "'">>
      [] OTHER                      -> <<dv>>

\* "name type [NOT NULL] [PRIMARY KEY] [DEFAULT v]" of a column definition
ColumnText(name, def) ==
    name \o <<def.sqlType>>
    \o (IF def.notNull THEN <<"NOT NULL">> ELSE <<>>)
    \o (IF def.primaryKey THEN <<"PRIMARY KEY">> ELSE <<>>)
    \o (IF def.default # "" THEN <<"DEFAULT">> \o DefaultText(def.default) ELSE <<>>)

CreateColumnText(def) == ColumnText(<<def.name>>, def)

\* "CONSTRAINT fk_<table>_<column>_fkey FOREIGN KEY (...) REFERENCES ...(id)
\* ON DELETE CASCADE"
ForeignKeyText(table, fk) ==
    <<"CONSTRAINT", "fk_" \o table \o "_" \o fk.column \o "_fkey", "FOREIGN KEY", "(">>
    \o quoteIdentifier(fk.column) \o <<")", "REFERENCES">> \o quoteIdentifier(fk.ref)
    \o <<"(", "id", ")", "ON DELETE", "CASCADE">>

FieldNamesText(names) == JoinTexts(Map(quoteIdentifier, names), <<",">>)

UniqueText(uc) == <<"CONSTRAINT", uc.name, "UNIQUE", "(">> \o FieldNamesText(uc.on) \o <<")">>

IsDefaultNullLine(line) == Len(line) >= 2 /\ line[1] = "DEFAULT" /\ line[2] = "NULL"

KeptLine(line) == line # <<>> /\ ~IsDefaultNullLine(line)

\* The text the generator formats a statement into
SQLText(stmt) ==
    CASE stmt.op = "CREATE TABLE" ->
             LET allLines == Map(CreateColumnText, stmt.columns)
                             \o [i \in 1..Len(stmt.fks) |->
                                    ForeignKeyText(stmt.table, stmt.fks[i])]
                             \o Map(UniqueText, stmt.uniques)
             IN <<"CREATE TABLE">> \o quoteIdentifier(stmt.table) \o <<"(", NL>>
                \o JoinTexts(SelectSeq(allLines, KeptLine), <<",", NL>>)
                \o <<NL, ")", ";">>
      [] stmt.op = "CREATE INDEX" ->
             <<"CREATE INDEX", stmt.name, "ON">> \o quoteIdentifier(stmt.table)
             \o <<"(">> \o FieldNamesText(stmt.on) \o <<")", ";">>
      [] stmt.op = "CREATE UNIQUE INDEX" ->
             <<"CREATE", "UNIQUE", "INDEX", stmt.name, "ON">>
             \o quoteIdentifier(stmt.table)
             \o <<"(">> \o FieldNamesText(stmt.on) \o <<")", ";">>
      [] stmt.op \in {"ADD COLUMN", "ALTER COLUMN"} ->
             <<"ALTER TABLE">> \o quoteIdentifier(stmt.table) \o <<stmt.op>>
             \o ColumnText(quoteIdentifier(stmt.name), stmt.columns[1]) \o <<";">>
      [] stmt.op = "DROP COLUMN" ->
             <<"ALTER TABLE">> \o quoteIdentifier(stmt.table) \o <<"DROP COLUMN">>
             \o quoteIdentifier(stmt.name) \o <<";">>
      [] stmt.op = "ADD CONSTRAINT" ->
             <<"ALTER TABLE">> \o quoteIdentifier(stmt.table) \o <<"ADD">>
             \o ForeignKeyText(stmt.table, stmt.fks[1]) \o <<";">>
      [] stmt.op = "DROP INDEX" ->
             <<"DROP INDEX", "IF EXISTS", stmt.name, ";">>
      [] stmt.op = "DROP CONSTRAINT" ->
             <<"ALTER TABLE">> \o quoteIdentifier(stmt.table)
             \o <<"DROP", "CONSTRAINT", "IF EXISTS",
                  "fk_" \o stmt.table \o "_" \o stmt.name \o "_fkey", ";">>
      [] stmt.op = "DROP TABLE" ->
             <<"DROP TABLE", "IF EXISTS">> \o quoteIdentifier(stmt.table) \o <<";">>

\* The words formatSQLWithLineBreaks puts a line break in front of
BreakKeywords ==
    {"CREATE TABLE", "DROP TABLE", "CREATE INDEX", "CONSTRAINT", "FOREIGN KEY",
     "REFERENCES", "ON DELETE", "PRIMARY KEY", "NOT NULL", "DEFAULT", "UNIQUE"}

\* The tokens that do not start with a letter or an underscore
NotAWord ==
    {NL, "\"", "'", "(", ")", ",", ";", ":", "{", "}", Backtick, "::jsonb", "0", "1", ""}

RECURSIVE SkipWhiteSpace(_, _)
SkipWhiteSpace(text, i) ==
    IF i <= Len(text) /\ text[i] = NL THEN SkipWhiteSpace(text, i + 1) ELSE i

\* regexp ,\s*([a-zA-Z_][a-zA-Z0-9_]*) : a comma with a word after it
CommaBeforeWord(text, i) ==
    /\ text[i] = ","
    /\ LET j == SkipWhiteSpace(text, i + 1)
       IN j <= Len(text) /\ text[j] \notin NotAWord

\* formatSQLWithLineBreaks: a break before each keyword, a break after each
\* comma that a word follows
RECURSIVE LineBreaksFrom(_, _)
LineBreaksFrom(text, i) ==
    IF i > Len(text) THEN <<>>
    ELSE IF text[i] \in BreakKeywords THEN <<NL, text[i]>> \o LineBreaksFrom(text, i + 1)
    ELSE IF CommaBeforeWord(text, i) THEN <<",", NL>> \o LineBreaksFrom(text, i + 1)
    ELSE <<text[i]>> \o LineBreaksFrom(text, i + 1)

formatSQLWithLineBreaks(text) == LineBreaksFrom(text, 1)

\* strings.Split(text, "\n") without the empty lines
RECURSIVE SplitLines(_, _)
SplitLines(text, line) ==
    IF text = <<>> THEN (IF line = <<>> THEN <<>> ELSE <<line>>)
    ELSE IF Head(text) = NL
         THEN (IF line = <<>> THEN <<>> ELSE <<line>>) \o SplitLines(Tail(text), <<>>)
         ELSE SplitLines(Tail(text), Append(line, Head(text)))

\* formatSQLStatement: the statement's lines, trimmed and indented again
formatSQLStatement(text) == SplitLines(formatSQLWithLineBreaks(text), <<>>)

\* if err := db.Exec(`<statement>`).Error; err != nil { return err }
ExecLines(stmt) ==
    LET body == formatSQLStatement(SQLText(stmt))
    IN [k \in 1..Len(body) |->
           (IF k = 1 THEN <<"if err :=", "db.Exec", "(", Backtick>> ELSE <<>>)
           \o body[k]
           \o (IF k = Len(body) THEN <<Backtick, ")", ".Error; err != nil", "{">> ELSE <<>>)]
       \o << <<"return err">>, <<"}">> >>

\* formatSQLAsExec as text: a comment for empty SQL, else one block per statement
FunctionBody(statements) ==
    IF statements = <<>> THEN << <<"// No schema changes">> >>
    ELSE Flatten(Map(ExecLines, statements))

\* The file CreateMigration writes: the template with the two bodies
FileContent(up, down) ==
    << <<"package migrations">>,
       <<"func init()", "{">>,
       <<"migration.RegisterMigration(&migration.Migration", "{">>,
       <<"Version:", "\"", "version", "\"", ",">>,
       <<"Name:", "\"", MigrationName, "\"", ",">>,
       <<"CreatedAt:", "time.Now()", ",">>,
       <<"Up: func(db *gorm.DB)", "error", "{">> >>
    \o FunctionBody(up)
    \o << <<"return nil">>,
          <<"}", ",">>,
          <<"Down: func(db *gorm.DB)", "error", "{">> >>
    \o FunctionBody(down)
    \o << <<"return nil">>,
          <<"}", ",">>,
          <<"}", ")">>,
          <<"}">> >>

\* strings.Contains(line, needle)
Contains(line, needle) ==
    \E k \in 0..(Len(line) - Len(needle)) :
        SubSeq(line, k + 1, k + Len(needle)) = needle

\* The places <<line, position>> of the backticks from startLine on
Backticks(lines, startLine) ==
    UNION {{<<l, p>> : p \in {q \in 1..Len(lines[l]) : lines[l][q] = Backtick}} :
              l \in startLine..Len(lines)}

\* The order in which the character loop reaches two places
ReachedBefore(a, b) == a[1] < b[1] \/ (a[1] = b[1] /\ a[2] < b[2])

FirstPlace(places) ==
    CHOOSE a \in places : \A b \in places \ {a} : ReachedBefore(a, b)

\* What the loop collects between two places: the text, and a line break
\* for each line end in between
TextBetween(lines, open, close) ==
    IF open[1] = close[1] THEN SubSeq(lines[open[1]], open[2] + 1, close[2] - 1)
    ELSE SubSeq(lines[open[1]], open[2] + 1, Len(lines[open[1]])) \o <<NL>>
         \o Flatten([k \in 1..(close[1] - open[1] - 1) |->
                        Append(lines[open[1] + k], NL)])
         \o SubSeq(lines[close[1]], 1, close[2] - 1)

\* extractMultiLineSQL: the text between the first two backticks from
\* startLine on; nothing when there is no backtick, an error when there is
\* only one
extractMultiLineSQL(lines, startLine) ==
    LET places == Backticks(lines, startLine)
    IN IF places = {} THEN [sql |-> <<>>, err |-> ""]
       ELSE IF places \ {FirstPlace(places)} = {}
       THEN [sql |-> <<>>, err |-> "unclosed backtick in SQL"]
       ELSE [sql |-> TextBetween(lines, FirstPlace(places),
                                 FirstPlace(places \ {FirstPlace(places)})),
             err |-> ""]

\* extractSQLFromFunction: the loop over the lines, from line i on
RECURSIVE ExtractFrom(_, _, _, _, _)
ExtractFrom(lines, function, i, inFunction, statements) ==
    IF i > Len(lines) THEN [statements |-> statements, err |-> ""]
    ELSE IF Contains(lines[i], <<function \o ": func(db *gorm.DB)">>)
    THEN ExtractFrom(lines, function, i + 1, TRUE, statements)
    ELSE IF inFunction /\ (\/ Contains(lines[i], <<"return nil">>)
                           \/ Contains(lines[i], <<"}", ",">>))
    THEN [statements |-> statements, err |-> ""]
    ELSE IF inFunction /\ Contains(lines[i], <<"db.Exec">>)
    THEN LET r == extractMultiLineSQL(lines, i)
         IN IF r.err # ""
            THEN [statements |-> <<>>, err |-> "failed to extract SQL: " \o r.err]
            ELSE ExtractFrom(lines, function, i + 1, inFunction,
                             IF r.sql # <<>> THEN Append(statements, r.sql)
                             ELSE statements)
    ELSE ExtractFrom(lines, function, i + 1, inFunction, statements)

extractSQLFromFunction(content, function) == ExtractFrom(content, function, 1, FALSE, <<>>)

\* executeMigrationSQL on the text of a file: extract, then db.Exec
\* statement by statement; the statement number failAt fails, none when
\* failAt is 0
ExecuteExtracted(content, function, failAt) ==
    LET r == extractSQLFromFunction(content, function)
    IN IF r.err # "" THEN [statements |-> <<>>, err |-> r.err]
       ELSE IF failAt \in 1..Len(r.statements)
       THEN [statements |-> SubSeq(r.statements, 1, failAt - 1),
             err |-> "failed to execute SQL"]
       ELSE [statements |-> r.statements, err |-> ""]


--------------------------------------------------------------------------
(* File specification: a diff is built, CreateMigration writes its file,   *)
(* and the loader runs the file's Up and Down functions.                    *)

\* The default literals of a jsonb column
FileDefaults == {"", "0", "'{}'", "'{}'::jsonb", "'{\"a\":{},\"b\":1}'"}

PrefsField(dv) == Field("prefs", "jsonb", FALSE, FALSE, dv)

\* A table to create: id, prefs with the default dv, name, and an index on
\* name when indexed
FileTable(name, dv, indexed) ==
    [CreateTable(name, <<>>) EXCEPT
        !.FieldsToAdd = @ \o <<PrefsField(dv), NameField>>,
        !.IndexesToAdd = IF indexed
                         THEN <<Index("idx_" \o name \o "_name", <<"name">>, "")>>
                         ELSE <<>>]

InitFile ==
    /\ InitGenIdle
    /\ InitDiffIdle
    /\ InitApplyIdle
    /\ fileText = <<>>
    /\ executed = [function \in {"Up", "Down"} |-> NotExecuted]
    /\ pcFile = "build"

\* One more table to create
AddFileTable ==
    /\ pcFile = "build"
    /\ \E name \in NewTables, dv \in FileDefaults, indexed \in BOOLEAN :
          /\ ~HasTable(SchemaDiff.TablesToCreate, name)
          /\ SchemaDiff' = [SchemaDiff EXCEPT
                               !.TablesToCreate = Append(@, FileTable(name, dv, indexed))]
    /\ UNCHANGED <<pcGen, genErr, upSQL, downSQL, sorted, files, dirExists, stdout, dbSchema>>
    /\ UNCHANGED <<varsDiff, varsApply, varsFile>>

\* The column prefs added to the existing table accounts
AddFileColumn ==
    /\ pcFile = "build"
    /\ SchemaDiff.TablesToModify = <<>>
    /\ \E dv \in FileDefaults :
          SchemaDiff' = [SchemaDiff EXCEPT !.TablesToModify =
              <<TableDiff("accounts", <<PrefsField(dv)>>, <<>>, <<>>, <<>>, <<>>, <<>>, <<>>)>>]
    /\ UNCHANGED <<pcGen, genErr, upSQL, downSQL, sorted, files, dirExists, stdout, dbSchema>>
    /\ UNCHANGED <<varsDiff, varsApply, varsFile>>

\* gen.CreateMigration(name), the file kept as the text it has on disk
CreateMigrationFile ==
    /\ pcFile = "build"
    /\ LET r == CreateMigrationOutcome(SchemaDiff)
       IN /\ genErr' = r.err
          /\ upSQL' = r.up
          /\ downSQL' = r.down
          /\ dirExists' = (dirExists \/ r.mkdir)
          /\ files' = IF r.written
                      THEN files \cup {MigrationFile(MigrationName, r.up, r.down)}
                      ELSE files
          /\ fileText' = IF r.written THEN FileContent(r.up, r.down) ELSE <<>>
          /\ pcFile' = IF r.written THEN "written" ELSE "failed"
    /\ UNCHANGED <<SchemaDiff, pcGen, sorted, stdout, dbSchema, executed>>
    /\ UNCHANGED <<varsDiff, varsApply>>

\* The Up or Down closure the loader registered for the file, called once
ExecuteMigrationSQL ==
    /\ pcFile = "written"
    /\ \E function \in {"Up", "Down"} :
          /\ executed[function] = NotExecuted
          /\ \E failAt \in 0..Len(extractSQLFromFunction(fileText, function).statements) :
                executed' = [executed EXCEPT
                                ![function] = ExecuteExtracted(fileText, function, failAt)]
    /\ UNCHANGED <<fileText, pcFile>>
    /\ UNCHANGED <<varsGen, varsDiff, varsApply>>

NextFile == AddFileTable \/ AddFileColumn \/ CreateMigrationFile \/ ExecuteMigrationSQL

SpecFile == InitFile /\ [][NextFile]_vars

\* A text without its line breaks
Words(text) == SelectSeq(text, LAMBDA tok : tok # NL)

\* The statements the generator produced for a function of the file
Generated(function) == IF function = "Up" THEN upSQL ELSE downSQL

GeneratedWords(function) ==
    [i \in 1..Len(Generated(function)) |-> Words(SQLText(Generated(function)[i]))]

ExecutedWords(function) ==
    [i \in 1..Len(executed[function].statements) |->
        Words(executed[function].statements[i])]

(* C30 as stated: when a function of a generated migration file has been   *)
(* run without error, the statements executed are the statements the       *)
(* generator produced for that function, each one complete, once and in    *)
(* the generator's order (texts compared without their line breaks).       *)
C30_ExecutesGenerated ==
    \A function \in {"Up", "Down"} :
        executed[function].err = "" => ExecutedWords(function) = GeneratedWords(function)

==========================================================================
